---------------------------- MODULE Spec2Model ----------------------------
(***************************************************************************)
(* A model of the flashcard pipeline of AnkiCard: AIService of             *)
(* src/unnamed/part_007 (the chunking OpenAI implementation, lines 1-634)  *)
(* and the parts of src/unnamed/part_006 (the multi-endpoint Hugging Face  *)
(* implementation) that the properties below speak about.                  *)
(*                                                                         *)
(* Strings are TLA+ strings (TLC evaluates Len and \o on them).  What the  *)
(* code computes with regular expressions on a line of study text is       *)
(* recorded, for each line of a catalogue of sample lines, next to the     *)
(* line; everything else (guards, thresholds, templates, loops, the retry  *)
(* policy, the JSON decoding of a reply) is computed by the operators.     *)
(***************************************************************************)
EXTENDS Integers, Sequences, FiniteSets, TLC

(***************************************************************************)
(* JavaScript values.  A value is a record tagged by t: "undef", "null",   *)
(* "bool" (b), "num" (n), "str" (s), "arr" (a: sequence of values) or      *)
(* "obj" (o: sequence of [k, v] members in source order).                  *)
(***************************************************************************)
Undefined == [t |-> "undef"]
JNull == [t |-> "null"]
JStr(s) == [t |-> "str", s |-> s]
JNum(n) == [t |-> "num", n |-> n]
JBool(b) == [t |-> "bool", b |-> b]
JArr(a) == [t |-> "arr", a |-> a]
JObj(o) == [t |-> "obj", o |-> o]

\* ToBoolean: what x || y, x && y and if (x) test.
Truthy(v) ==
  CASE v.t = "undef" -> FALSE
    [] v.t = "null" -> FALSE
    [] v.t = "bool" -> v.b
    [] v.t = "num" -> v.n # 0
    [] v.t = "str" -> v.s # ""
    [] OTHER -> TRUE

\* x || y
Or(x, y) == IF Truthy(x) THEN x ELSE y

\* Array.isArray(x)
IsArray(v) == v.t = "arr"

\* The members of object o named k, in source order.
MembersNamed(o, k) == SelectSeq(o, LAMBDA m : m.k = k)

\* v.k for a value that is not null or undefined: the last member named k of an
\* object (JSON.parse keeps the last duplicate), undefined when there is none and
\* for the properties this code reads on arrays, strings, numbers and booleans.
Get(v, k) ==
  IF v.t = "obj" /\ MembersNamed(v.o, k) # << >>
  THEN MembersNamed(v.o, k)[Len(MembersNamed(v.o, k))].v
  ELSE Undefined

\* Reading a property of null or undefined throws a TypeError.
CanRead(v) == v.t \notin {"undef", "null"}

(***************************************************************************)
(* The text of an upstream reply is a sequence of tokens: the JSON         *)
(* punctuation, string and number literals, the literals null, true and    *)
(* false, white space ("ws"), a code-fence delimiter ("fence") and a bare    *)
(* word of prose ("word", such as the language label json after a fence).  *)
(***************************************************************************)
Tok(k) == [k |-> k]
TStr(s) == [k |-> "str", s |-> s]
TNum(n) == [k |-> "num", n |-> n]

RECURSIVE SkipWs(_, _)
SkipWs(toks, i) ==
  IF i <= Len(toks) /\ toks[i].k = "ws" THEN SkipWs(toks, i + 1) ELSE i

Fail == [ok |-> FALSE]

\* JSON.parse's grammar on tokens: each operator returns [ok, v, i] with i the
\* index after the value, or Fail (a SyntaxError).
RECURSIVE ParseValue(_, _), ParseElements(_, _, _), ParseMembers(_, _, _)
ParseValue(toks, i0) ==
  LET i == SkipWs(toks, i0) IN
  IF i > Len(toks) THEN Fail
  ELSE LET tk == toks[i] IN
    CASE tk.k = "str" -> [ok |-> TRUE, v |-> JStr(tk.s), i |-> i + 1]
      [] tk.k = "num" -> [ok |-> TRUE, v |-> JNum(tk.n), i |-> i + 1]
      [] tk.k = "null" -> [ok |-> TRUE, v |-> JNull, i |-> i + 1]
      [] tk.k = "true" -> [ok |-> TRUE, v |-> JBool(TRUE), i |-> i + 1]
      [] tk.k = "false" -> [ok |-> TRUE, v |-> JBool(FALSE), i |-> i + 1]
      [] tk.k = "[" ->
           LET j == SkipWs(toks, i + 1) IN
           IF j <= Len(toks) /\ toks[j].k = "]"
           THEN [ok |-> TRUE, v |-> JArr(<< >>), i |-> j + 1]
           ELSE ParseElements(toks, i + 1, << >>)
      [] tk.k = "{" ->
           LET j == SkipWs(toks, i + 1) IN
           IF j <= Len(toks) /\ toks[j].k = "}"
           THEN [ok |-> TRUE, v |-> JObj(<< >>), i |-> j + 1]
           ELSE ParseMembers(toks, i + 1, << >>)
      [] OTHER -> Fail

\* value ("," value)* "]"
ParseElements(toks, i0, acc) ==
  LET r == ParseValue(toks, i0) IN
  IF ~r.ok THEN Fail
  ELSE LET j == SkipWs(toks, r.i) IN
    IF j > Len(toks) THEN Fail
    ELSE IF toks[j].k = "]" THEN [ok |-> TRUE, v |-> JArr(Append(acc, r.v)), i |-> j + 1]
    ELSE IF toks[j].k = "," THEN ParseElements(toks, j + 1, Append(acc, r.v))
    ELSE Fail

\* string ":" value ("," string ":" value)* "}"
ParseMembers(toks, i0, acc) ==
  LET i == SkipWs(toks, i0) IN
  IF i > Len(toks) \/ toks[i].k # "str" THEN Fail
  ELSE LET c == SkipWs(toks, i + 1) IN
    IF c > Len(toks) \/ toks[c].k # ":" THEN Fail
    ELSE LET r == ParseValue(toks, c + 1) IN
      IF ~r.ok THEN Fail
      ELSE LET j == SkipWs(toks, r.i)
               m == [k |-> toks[i].s, v |-> r.v] IN
        IF j > Len(toks) THEN Fail
        ELSE IF toks[j].k = "}" THEN [ok |-> TRUE, v |-> JObj(Append(acc, m)), i |-> j + 1]
        ELSE IF toks[j].k = "," THEN ParseMembers(toks, j + 1, Append(acc, m))
        ELSE Fail

\* JSON.parse(text): one value, white space around it allowed, nothing else.
JSONParse(toks) ==
  LET r == ParseValue(toks, 1) IN
  IF r.ok /\ SkipWs(toks, r.i) > Len(toks) THEN [ok |-> TRUE, v |-> r.v] ELSE Fail


(***************************************************************************)
(* Sample upstream replies (data.choices[0].message.content), as tokens.   *)
(***************************************************************************)
\* "k": v
Member(k, v) == <<TStr(k), Tok(":")>> \o v

RECURSIVE Joined(_)
\* The token sequences of parts, separated by commas.
Joined(parts) ==
  IF parts = << >> THEN << >>
  ELSE IF Len(parts) = 1 THEN parts[1]
  ELSE parts[1] \o <<Tok(",")>> \o Joined(Tail(parts))

ObjToks(members) == <<Tok("{")>> \o Joined(members) \o <<Tok("}")>>
ArrToks(elements) == <<Tok("[")>> \o Joined(elements) \o <<Tok("]")>>

\* {"front": f, "back": b}
CardToks(f, b) == ObjToks(<<Member("front", <<f>>), Member("back", <<b>>)>>)

\* The reply of spec.md section 8: one well-formed document with one valid card.
ReplyOne ==
  ObjToks(<<
    Member("cards", ArrToks(<<ObjToks(<<
      Member("front", <<TStr("Q")>>), Member("back", <<TStr("A")>>),
      Member("tags", ArrToks(<< >>)), Member("difficulty", <<TStr("easy")>>)>>)>>)),
    Member("concepts", ArrToks(<< >>)),
    Member("medicalTerms", ArrToks(<< >>)),
    Member("summary", <<TStr("s")>>)>>)

\* The same document wrapped in code-fence markers: a fence and the label json
\* before it, a fence after it.
ReplyFenced ==
  <<Tok("fence"), Tok("word"), Tok("ws")>> \o ReplyOne \o <<Tok("ws"), Tok("fence")>>

\* {"cards": [], "concepts": ["c"], "medicalTerms": [], "summary": "s"}
ReplyEmptyCards ==
  ObjToks(<<
    Member("cards", ArrToks(<< >>)),
    Member("concepts", ArrToks(<< <<TStr("c")>> >>)),
    Member("medicalTerms", ArrToks(<< >>)),
    Member("summary", <<TStr("s")>>)>>)

\* {"concepts": [], "summary": "s"}: no cards field.
ReplyNoCards ==
  ObjToks(<<Member("concepts", ArrToks(<< >>)), Member("summary", <<TStr("s")>>)>>)

\* Only records that fail validation: an empty front, a missing back, a null front.
ReplyAllInvalid ==
  ObjToks(<<
    Member("cards", ArrToks(<<
      ObjToks(<<Member("front", <<TStr("")>>), Member("back", <<TStr("A")>>),
                Member("tags", ArrToks(<< <<TStr("t")>> >>)),
                Member("difficulty", <<TStr("hard")>>)>>),
      ObjToks(<<Member("front", <<TStr("Q2")>>)>>),
      CardToks(Tok("null"), TStr("A3")),
      CardToks(TNum(0), TStr("A4"))>>)),
    Member("summary", <<TStr("s")>>)>>)

\* Valid and invalid records together; two records share the front "Q"; one has a
\* difficulty outside the enumeration and tags that are no list; one has a number
\* as back; medicalTerms names a term that concepts does not.
ReplyMixed ==
  ObjToks(<<
    Member("cards", ArrToks(<<
      CardToks(TStr(""), TStr("A")),
      ObjToks(<<Member("front", <<TStr("Q")>>), Member("back", <<TStr("A")>>),
                Member("tags", <<TStr("x")>>),
                Member("difficulty", <<TStr("impossible")>>)>>),
      CardToks(TStr("Q"), TStr("B")),
      CardToks(TStr("Q3"), TNum(206))>>)),
    Member("concepts", ArrToks(<< <<TStr("myopia")>> >>)),
    Member("medicalTerms", ArrToks(<< <<TStr("retina")>> >>)),
    Member("summary", <<TStr("")>>)>>)

\* A second valid document, for another chunk; its second card repeats front "Q".
ReplyTwo ==
  ObjToks(<<
    Member("cards", ArrToks(<<CardToks(TStr("Q2"), TStr("A2")),
                              CardToks(TStr("Q"), TStr("A again"))>>)),
    Member("concepts", ArrToks(<< <<TStr("myopia")>>, <<TStr("lens")>> >>)),
    Member("medicalTerms", ArrToks(<< <<TStr("lens")>> >>)),
    Member("summary", <<TStr("t")>>)>>)

\* [{"front": "Q", "back": "A"}]: the inner array alone, no enclosing object.
ReplyBareArray == ArrToks(<<CardToks(TStr("Q"), TStr("A"))>>)

\* Prose without any JSON.
ReplyProse == <<Tok("word"), Tok("ws"), Tok("word")>>

\* The replies that the upstream answers with in a run.
Replies ==
  {ReplyOne, ReplyFenced, ReplyEmptyCards, ReplyNoCards, ReplyAllInvalid, ReplyMixed,
   ReplyTwo, ReplyBareArray, ReplyProse}

(***************************************************************************)
(* Results of functions that may throw: Return(v) or Throw(message).       *)
(***************************************************************************)
Return(v) == [ok |-> TRUE, value |-> v]
Throw(msg) == [ok |-> FALSE, error |-> msg]

\* new Error(message): the message is the sequence of its fragments.
Error(message) == [message |-> message]

ParseFailed == Error(<<"Failed to parse AI response. Please try again.">>)

\* An id made of the index alone.
CardIdByIndex(now, index) == [t |-> 0, index |-> index]

\* The id template card-${Date.now()}-${index}: the time and the index.
CardId(now, index) == [t |-> now, index |-> index]

Formats == {"basic", "cloze", "image"}

(***************************************************************************)
(* parseAIResponse of the chunking implementation (part_007, 365-392).     *)
(***************************************************************************)
\* The object literal of the map callback (370-378); index counts from 0.
MapCard(card, index, format, now) ==
  [id |-> CardId(now, index),
   front |-> Or(Get(card, "front"), JStr("")),
   back |-> Or(Get(card, "back"), JStr("")),
   type |-> format,
   tags |-> IF IsArray(Get(card, "tags")) THEN Get(card, "tags") ELSE JArr(<< >>),
   context |-> Get(card, "context"),
   difficulty |-> Or(Get(card, "difficulty"), JStr("medium"))]

\* A filter that tests the back alone.
KeepCardBackOnly(card) == Truthy(card.back)

\* The filter callback (378): card.front && card.back
KeepCard(card) == Truthy(card.front) /\ Truthy(card.back)

\* (parsed.cards || []).map(...).filter(...) for an array of readable records.
ValidCards(records, format, now) ==
  SelectSeq([i \in 1..Len(records) |-> MapCard(records[i], i - 1, format, now)], KeepCard)

\* The result object (382-387).
ParsedResult(parsed, cards) ==
  [cards |-> cards,
   concepts |-> IF IsArray(Get(parsed, "concepts")) THEN Get(parsed, "concepts").a ELSE << >>,
   summary |-> Or(Get(parsed, "summary"), JStr("No summary available")),
   medicalTerms |-> IF IsArray(Get(parsed, "medicalTerms"))
                    THEN Get(parsed, "medicalTerms").a ELSE << >>]

\* Every exception of the try block (a SyntaxError of JSON.parse, a TypeError of
\* reading parsed.cards on null, of .map on a value that is no array, of
\* card.front on null) is caught and replaced by ParseFailed (388-391).
parseAIResponse(response, format, now) ==
  LET p == JSONParse(response) IN
  IF ~p.ok \/ ~CanRead(p.v) THEN Throw(ParseFailed)
  ELSE LET list == Or(Get(p.v, "cards"), JArr(<< >>)) IN
    IF ~IsArray(list) THEN Throw(ParseFailed)
    ELSE IF \E i \in 1..Len(list.a) : ~CanRead(list.a[i]) THEN Throw(ParseFailed)
    ELSE Return(ParsedResult(p.v, ValidCards(list.a, format, now)))

(***************************************************************************)
(* parseAIResponse of the multi-endpoint implementation (part_006,         *)
(* 169-243).  The braces and brackets of the sample replies are tokens of  *)
(* their own (no sample string holds one).                                 *)
(***************************************************************************)
\* text.match(open [\s\S]* close): the tokens from the first open to the last
\* close after it, << >> when there is no match (null).
MatchSpan(toks, open, close) ==
  LET opens == {k \in 1..Len(toks) : toks[k].k = open}
      first == CHOOSE k \in opens : \A j \in opens : k <= j
      closes == {k \in 1..Len(toks) : toks[k].k = close /\ k > first}
  IN IF opens = {} \/ closes = {} THEN << >>
     ELSE SubSeq(toks, first, CHOOSE k \in closes : \A j \in closes : j <= k)

\* '{\n  "cards": [' + response when the trimmed response does not start with a
\* brace (175-179).
WithOpening(response) ==
  IF SkipWs(response, 1) <= Len(response) /\ response[SkipWs(response, 1)].k = "{"
  THEN response
  ELSE <<Tok("{"), Tok("ws"), TStr("cards"), Tok(":"), Tok("ws"), Tok("[")>> \o response

\* The document synthesized around a bracketed list (190).
WrappedCards(cardsMatch) ==
  ObjToks(<<Member("cards", cardsMatch), Member("concepts", ArrToks(<< >>)),
            Member("medicalTerms", ArrToks(<< >>)),
            Member("summary", <<TStr("Generated from text")>>)>>)

\* The errors are thrown on by the catch of 238-242.
parseAIResponseHF(response, format, now) ==
  LET braces == MatchSpan(WithOpening(response), "{", "}")
      cardsMatch == MatchSpan(response, "[", "]")
      jsonMatch == IF braces # << >> THEN braces
                   ELSE IF cardsMatch # << >> THEN WrappedCards(cardsMatch)
                   ELSE << >>
      p == JSONParse(jsonMatch)
  IN IF jsonMatch = << >> THEN Throw(Error(<<"No JSON found in response">>))
     ELSE IF ~p.ok THEN Throw(Error(<<"Invalid JSON format from AI">>))
     ELSE LET list == Or(Get(p.v, "cards"), JArr(<< >>)) IN
       IF ~IsArray(list)
       THEN Throw(Error(<<"(parsed.cards || []).map is not a function">>))
       ELSE IF \E i \in 1..Len(list.a) : ~CanRead(list.a[i])
       THEN Throw(Error(<<"Cannot read properties of null (reading 'front')">>))
       ELSE IF ValidCards(list.a, format, now) = << >>
       THEN Throw(Error(<<"AI returned empty card list">>))
       ELSE Return(ParsedResult(p.v, ValidCards(list.a, format, now)))


(***************************************************************************)
(* Study text.  A text is the sequence of its lines (the text is the raw   *)
(* lines joined by "\n"; an empty line between two lines is a paragraph    *)
(* break "\n\n").  A line records raw (the characters of the line), s      *)
(* (raw.trim()) and, under f7 and f6, what the regular expressions and     *)
(* string functions of fallbackExtraction of part_007 (394-605) and of     *)
(* part_006 (245-418) yield on s: the pattern matches, their trimmed       *)
(* captures, extractTag, isMedicalTerm and toLowerCase of the captures.    *)
(* Facts that the code does not read for the line are not recorded.        *)
(***************************************************************************)
RECURSIVE Rep(_, _)
Rep(s, n) == IF n = 0 THEN "" ELSE s \o Rep(s, n - 1)

\* A run of k characters x.
Xs(k) ==
  Rep(Rep("xxxxxxxxxx", 10), k \div 100) \o Rep("xxxxxxxxxx", (k % 100) \div 10)
    \o Rep("x", k % 10)

LMyopia ==
  [raw |-> "Myopia: blurry vision for distant objects.",
   s |-> "Myopia: blurry vision for distant objects.",
   french |-> FALSE,
   f7 |-> [headerMatch |-> FALSE, hasDot |-> TRUE, def |-> TRUE, term |-> "Myopia",
          defn |-> "blurry vision for distant objects.", termTag |-> "myopia",
          termMedical |-> FALSE, termLower |-> "myopia", termUpper |-> TRUE,
          defEst |-> FALSE, defDigit |-> FALSE],
   f6 |-> [def |-> TRUE, term |-> "Myopia", defn |-> "blurry vision for distant objects.",
          termTag |-> "myopia", termMedical |-> TRUE, comp |-> FALSE, cause |-> FALSE]]

LHeader ==
  [raw |-> "Refraction Basics",
   s |-> "Refraction Basics",
   french |-> FALSE,
   f7 |-> [headerMatch |-> TRUE, hasDot |-> FALSE, lineTag |-> "refraction",
          def |-> FALSE],
   f6 |-> [def |-> FALSE, comp |-> FALSE, cause |-> FALSE,
          content |-> "Refraction Basics"]]

LEst ==
  [raw |-> "- La myopie est un trouble de la vision de loin",
   s |-> "- La myopie est un trouble de la vision de loin",
   french |-> TRUE,
   f7 |-> [headerMatch |-> FALSE, hasDot |-> FALSE, def |-> FALSE,
          content |-> "La myopie est un trouble de la vision de loin",
          hasNumber |-> FALSE, hasKeyTerm |-> TRUE, hasEst |-> TRUE,
          clozeContent |-> "La {{c1::myopie}} est un trouble de la vision de loin",
          clozeMarked |-> TRUE,
          clozeBack |-> "La myopie est un trouble de la vision de loin",
          isMatch |-> TRUE, subject |-> "La myopie", subjectLower |-> "la myopie",
          numberMatch |-> FALSE, tendencyMatch |-> FALSE,
          firstWords |-> "La myopie est un trouble", contentTag |-> "vision"],
   f6 |-> [def |-> FALSE, comp |-> FALSE, cause |-> FALSE,
          content |-> "La myopie est un trouble de la vision de loin", isAre |-> FALSE,
          nparts |-> 1, nwords |-> 10, subject |-> "La myopie est",
          clozeGeneric |-> "La myopie est un trouble de la {{c1::vision de loin}}",
          contentTag |-> "vision"]]

LNum ==
  [raw |-> "1. L'hypermetropie moyenne du nouveau-ne est de +2.00 dioptries",
   s |-> "1. L'hypermetropie moyenne du nouveau-ne est de +2.00 dioptries",
   french |-> TRUE,
   f7 |-> [headerMatch |-> FALSE, hasDot |-> TRUE, def |-> FALSE,
          content |-> "L'hypermetropie moyenne du nouveau-ne est de +2.00 dioptries",
          hasNumber |-> TRUE, hasKeyTerm |-> FALSE, hasEst |-> TRUE,
          clozeContent |-> "L'hypermetropie moyenne du nouveau-ne est de +{{c1::2.00 d}}ioptries",
          clozeMarked |-> TRUE,
          clozeBack |-> "L'hypermetropie moyenne du nouveau-ne est de +2.00 dioptries",
          isMatch |-> TRUE, subject |-> "L'hypermetropie moyenne du nouveau-ne",
          subjectLower |-> "l'hypermetropie moyenne du nouveau-ne", numberMatch |-> TRUE,
          before |-> "L'hypermetropie moyenne du nouveau-ne est de +",
          beforeLower |-> "l'hypermetropie moyenne du nouveau-ne est de +",
          tendencyMatch |-> FALSE,
          firstWords |-> "L'hypermetropie moyenne du nouveau-ne est",
          contentTag |-> "lhypermetropie"],
   f6 |-> [def |-> FALSE, comp |-> FALSE, cause |-> FALSE,
          content |-> "L'hypermetropie moyenne du nouveau-ne est de +2.00 dioptries",
          isAre |-> FALSE, nparts |-> 1, nwords |-> 8,
          subject |-> "L'hypermetropie moyenne",
          clozeGeneric |-> "L'hypermetropie moyenne du nouveau-ne est {{c1::de +2.00 dioptries}}",
          contentTag |-> "lhypermetropie"]]

LShort ==
  [raw |-> "Short line.",
   s |-> "Short line.",
   french |-> FALSE,
   f7 |-> [none |-> TRUE],
   f6 |-> [none |-> TRUE]]

LTiny ==
  [raw |-> "tiny",
   s |-> "tiny",
   french |-> FALSE,
   f7 |-> [none |-> TRUE],
   f6 |-> [none |-> TRUE]]

LCornea ==
  [raw |-> "  Cornea - the transparent front part of the eye  ",
   s |-> "Cornea - the transparent front part of the eye",
   ltrim |-> "Cornea - the transparent front part of the eye  ", rtrim |-> "  Cornea - the transparent front part of the eye",
   french |-> FALSE,
   f7 |-> [headerMatch |-> FALSE, hasDot |-> FALSE, def |-> TRUE, term |-> "Cornea",
          defn |-> "the transparent front part of the eye", termTag |-> "cornea",
          termMedical |-> TRUE, termLower |-> "cornea", termUpper |-> TRUE,
          defEst |-> FALSE, defDigit |-> FALSE],
   f6 |-> [def |-> TRUE, term |-> "Cornea",
          defn |-> "the transparent front part of the eye", termTag |-> "cornea",
          termMedical |-> TRUE, comp |-> FALSE, cause |-> FALSE]]

LPlain ==
  [raw |-> "The lens changes shape to focus light on the retina properly",
   s |-> "The lens changes shape to focus light on the retina properly",
   french |-> FALSE,
   f7 |-> [headerMatch |-> FALSE, hasDot |-> FALSE, def |-> FALSE,
          content |-> "The lens changes shape to focus light on the retina properly",
          hasNumber |-> FALSE, hasKeyTerm |-> FALSE, hasEst |-> FALSE,
          clozeContent |-> "The lens changes shape to focus light on the retina properly",
          clozeMarked |-> FALSE,
          clozeBack |-> "The lens changes shape to focus light on the retina properly",
          isMatch |-> FALSE, numberMatch |-> FALSE, tendencyMatch |-> FALSE,
          firstWords |-> "The lens changes shape to", contentTag |-> "retina"],
   f6 |-> [def |-> FALSE, comp |-> FALSE, cause |-> FALSE,
          content |-> "The lens changes shape to focus light on the retina properly",
          isAre |-> FALSE, nparts |-> 1, nwords |-> 11, subject |-> "The lens changes",
          clozeGeneric |-> "The lens changes shape to focus light on {{c1::the retina properly}}",
          contentTag |-> "retina"]]

LShortDef ==
  [raw |-> "Astigmatism: 12345",
   s |-> "Astigmatism: 12345",
   french |-> FALSE,
   f7 |-> [headerMatch |-> FALSE, hasDot |-> FALSE, def |-> TRUE, term |-> "Astigmatism",
          defn |-> "12345", termTag |-> "astigmatism", termMedical |-> FALSE,
          termLower |-> "astigmatism", termUpper |-> TRUE, defEst |-> FALSE,
          defDigit |-> TRUE],
   f6 |-> [def |-> TRUE, term |-> "Astigmatism", defn |-> "12345",
          termTag |-> "astigmatism", termMedical |-> TRUE, comp |-> FALSE,
          cause |-> FALSE]]

LKeyOnly ==
  [raw |-> "* accommodation du cristallin",
   s |-> "* accommodation du cristallin",
   french |-> FALSE,
   f7 |-> [headerMatch |-> FALSE, hasDot |-> FALSE, def |-> FALSE,
          content |-> "accommodation du cristallin", hasNumber |-> FALSE,
          hasKeyTerm |-> TRUE, hasEst |-> FALSE,
          clozeContent |-> "{{c1::accommodation}} du cristallin", clozeMarked |-> TRUE,
          clozeBack |-> "accommodation du cristallin", isMatch |-> FALSE,
          numberMatch |-> FALSE, tendencyMatch |-> FALSE,
          firstWords |-> "accommodation du cristallin", contentTag |-> "accommodation"],
   f6 |-> [def |-> FALSE, comp |-> FALSE, cause |-> FALSE,
          content |-> "accommodation du cristallin", isAre |-> FALSE, nparts |-> 1,
          nwords |-> 3, subject |-> "accommodation",
          clozeGeneric |-> "{{c1::accommodation du cristallin}}",
          contentTag |-> "accommodation"]]

LIs ==
  [raw |-> "The cornea is the clear front surface of the eye",
   s |-> "The cornea is the clear front surface of the eye",
   french |-> FALSE,
   f7 |-> [headerMatch |-> TRUE, hasDot |-> FALSE, lineTag |-> "cornea", def |-> FALSE],
   f6 |-> [def |-> FALSE, comp |-> FALSE, cause |-> FALSE,
          content |-> "The cornea is the clear front surface of the eye", isAre |-> TRUE,
          nparts |-> 2, part0 |-> "The cornea",
          part1 |-> "the clear front surface of the eye", part0Trim |-> "The cornea",
          part1Trim |-> "the clear front surface of the eye",
          clozeIs |-> "The cornea is {{c1::the clear front surface of the eye}}",
          nwords |-> 10, subject |-> "The cornea is",
          clozeGeneric |-> "The cornea is the clear front surface {{c1::of the eye}}",
          contentTag |-> "cornea"]]

LVs ==
  [raw |-> "Myopia vs hyperopia in young adults",
   s |-> "Myopia vs hyperopia in young adults",
   french |-> FALSE,
   f7 |-> [headerMatch |-> TRUE, hasDot |-> FALSE, lineTag |-> "myopia", def |-> FALSE],
   f6 |-> [def |-> FALSE, comp |-> TRUE, concept1 |-> "Myopia",
          concept2 |-> "hyperopia in young adults", compTag |-> "myopia",
          cause |-> FALSE]]

LCause ==
  [raw |-> "Smoking causes cataract formation over time",
   s |-> "Smoking causes cataract formation over time",
   french |-> FALSE,
   f7 |-> [headerMatch |-> TRUE, hasDot |-> FALSE, lineTag |-> "smoking", def |-> FALSE],
   f6 |-> [def |-> FALSE, comp |-> FALSE, cause |-> TRUE, causeText |-> "Smoking",
          relation |-> "causes", effect |-> "cataract formation over time",
          causeTag |-> "smoking"]]

LValue ==
  [raw |-> "Pression: la valeur normale est de 15 mm chez l'adulte",
   s |-> "Pression: la valeur normale est de 15 mm chez l'adulte",
   french |-> TRUE,
   f7 |-> [headerMatch |-> FALSE, hasDot |-> FALSE, def |-> TRUE, term |-> "Pression",
          defn |-> "la valeur normale est de 15 mm chez l'adulte",
          termTag |-> "pression", termMedical |-> FALSE, termLower |-> "pression",
          termUpper |-> TRUE, defEst |-> TRUE, defDigit |-> TRUE],
   f6 |-> [def |-> TRUE, term |-> "Pression",
          defn |-> "la valeur normale est de 15 mm chez l'adulte",
          termTag |-> "pression", termMedical |-> FALSE, comp |-> FALSE, cause |-> FALSE]]

LBlank ==
  [raw |-> "",
   s |-> "",
   french |-> FALSE,
   f7 |-> [none |-> TRUE],
   f6 |-> [none |-> TRUE]]

LSpaces ==
  [raw |-> "   ",
   s |-> "",
   ltrim |-> "", rtrim |-> "",
   french |-> FALSE,
   f7 |-> [none |-> TRUE],
   f6 |-> [none |-> TRUE]]

\* A line that is a run of n characters x (n >= 15).  No pattern matches it: it
\* starts with no capital, holds no separator, digit, blank or key term.
XLine(n) ==
  [raw |-> Xs(n), s |-> Xs(n), run |-> TRUE, french |-> FALSE,
   f7 |-> [headerMatch |-> FALSE, hasDot |-> FALSE, def |-> FALSE, content |-> Xs(n),
          hasNumber |-> FALSE, hasKeyTerm |-> FALSE, hasEst |-> FALSE],
   f6 |-> [def |-> FALSE, comp |-> FALSE, cause |-> FALSE, content |-> Xs(n),
          isAre |-> FALSE, nparts |-> 1, nwords |-> 1, subject |-> "",
          clozeGeneric |-> "{{c1::" \o Xs(n) \o "}}", contentTag |-> Xs(n)]]

\* s.substring(0, k) of the trimmed line l.
PrefixOf(l, k) ==
  CASE Len(l.s) <= k -> l.s
    [] "run" \in DOMAIN l -> Xs(k)

(***************************************************************************)
(* fallbackExtraction of the chunking implementation (part_007, 394-532).  *)
(***************************************************************************)
\* text.split(/\n/).map(l => l.trim()).filter(l => l.length > 10)  (399-402)
FilteredLines(text) == SelectSeq(text, LAMBDA l : Len(l.s) > 10)

\* set.add(x) on a Set kept in insertion order.
SetAdd(set, x) == IF \E i \in 1..Len(set) : set[i] = x THEN set ELSE Append(set, x)

\* array.slice(0, n)
Slice(seq, n) == SubSeq(seq, 1, IF Len(seq) < n THEN Len(seq) ELSE n)

\* generateQuestion(cleanTerm, cleanDef)  (534-547)
generateQuestion(f) ==
  IF f.termUpper /\ f.defEst THEN "Qu'est-ce que " \o f.termLower \o "?"
  ELSE IF f.defDigit THEN "Quelle est la valeur de " \o f.termLower \o "?"
  ELSE "What is " \o f.term \o "?"

\* generateQuestionFromStatement(content, previousLine)  (549-584); "" stands for
\* null (every question is non-empty).  The accents of the source's templates are
\* written without accent here.
generateQuestionFromStatement(f) ==
  IF f.isMatch /\ Len(f.subject) < 60 THEN "Qu'est-ce que " \o f.subjectLower \o "?"
  ELSE IF f.numberMatch /\ Len(f.before) > 5 /\ Len(f.before) < 100
    THEN "Quelle est la valeur de " \o f.beforeLower \o "?"
  ELSE IF f.tendencyMatch THEN "Comment evoluent " \o f.tendency \o "?"
  ELSE IF Len(f.content) < 150 /\ Len(f.content) > 30
    THEN "Expliquez: " \o f.firstWords \o "..."
  ELSE ""

\* A card literal of the fallback extractor.
FallbackCard(now, index, front, back, format, tags, difficulty) ==
  [id |-> CardId(now, index), front |-> JStr(front), back |-> JStr(back),
   type |-> format, tags |-> JArr([i \in 1..Len(tags) |-> JStr(tags[i])]),
   context |-> Undefined, difficulty |-> JStr(difficulty)]

\* A ceiling ten times as high.
LooseCeiling == 10 * 40

\* The ceiling on the cards of one fallback extraction (418, 527).
MaxFallbackCards == 40

\* One call of the forEach callback (417-520) on line l at index (from 0); st holds
\* cards, conceptsSet, medicalTermsSet, currentSection and previousLine.
FallbackLine(st, l, index, format, now) ==
  LET f == l.f7 IN
  IF Len(l.s) < 15 \/ Len(st.cards) >= MaxFallbackCards THEN st
  ELSE IF f.headerMatch /\ Len(l.s) < 80 /\ ~f.hasDot
    THEN [st EXCEPT !.currentSection = f.lineTag]
  ELSE IF f.def THEN
    IF Len(f.defn) > 10 /\ Len(f.defn) < 500
    THEN [st EXCEPT
           !.cards = Append(@,
             IF format = "cloze"
             THEN FallbackCard(now, index, f.term \o ": {{c1::" \o f.defn \o "}}", f.defn,
                               format, <<st.currentSection, f.termTag>>, "medium")
             ELSE FallbackCard(now, index, generateQuestion(f), f.defn,
                               format, <<st.currentSection, f.termTag>>, "easy")),
           !.conceptsSet = SetAdd(@, f.term),
           !.medicalTermsSet = IF f.termMedical THEN SetAdd(@, f.term) ELSE @]
    ELSE st
  ELSE
    LET hit == /\ Len(f.content) > 20 /\ Len(f.content) < 400
               /\ (f.hasNumber \/ f.hasKeyTerm \/ f.hasEst)
        card ==
          IF format = "cloze"
          THEN IF f.clozeMarked
               THEN <<FallbackCard(now, index, f.clozeContent, f.clozeBack, format,
                                   <<st.currentSection, f.contentTag>>,
                                   IF f.hasNumber THEN "hard" ELSE "medium")>>
               ELSE << >>
          ELSE IF generateQuestionFromStatement(f) # ""
               THEN <<FallbackCard(now, index, generateQuestionFromStatement(f), f.content,
                                   format, <<st.currentSection, f.contentTag>>,
                                   IF f.hasNumber THEN "medium" ELSE "easy")>>
               ELSE << >>
    IN [st EXCEPT !.cards = IF hit THEN @ \o card ELSE @,
                  !.previousLine = l.s]

RECURSIVE FallbackLoop(_, _, _, _, _, _)
\* lines.forEach over the positions lo..hi (from 1), in order: the first half of
\* the positions, then the second half.
FallbackLoop(st, lines, lo, hi, format, now) ==
  IF lo > hi THEN st
  ELSE IF lo = hi THEN FallbackLine(st, lines[lo], lo - 1, format, now)
  ELSE LET mid == (lo + hi) \div 2
           half == FallbackLoop(st, lines, lo, mid, format, now)
       IN \* at the ceiling every further call returns at once (418)
          IF Len(half.cards) >= MaxFallbackCards THEN half
          ELSE FallbackLoop(half, lines, mid + 1, hi, format, now)

RECURSIVE JoinCut(_, _)
\* lines.join(' ').substring(0, k)
JoinCut(lines, k) ==
  IF lines = << >> \/ k = 0 THEN ""
  ELSE IF Len(lines[1].s) >= k THEN PrefixOf(lines[1], k)
  ELSE IF Len(lines) = 1 THEN lines[1].s
  ELSE lines[1].s \o " " \o JoinCut(Tail(lines), k - Len(lines[1].s) - 1)

\* fallbackExtraction(text, format); now is the value of Date.now() during the call.
fallbackExtraction(text, format, now) ==
  LET lines == FilteredLines(text)
      st == FallbackLoop([cards |-> << >>, conceptsSet |-> << >>, medicalTermsSet |-> << >>,
                          currentSection |-> "general", previousLine |-> ""],
                         lines, 1, Len(lines), format, now)
  IN [cards |-> Slice(st.cards, MaxFallbackCards),
      concepts |-> [i \in 1..Len(Slice(st.conceptsSet, 20)) |-> JStr(st.conceptsSet[i])],
      summary |-> JStr(JoinCut(Slice(lines, 3), 250) \o "..."),
      medicalTerms |->
        [i \in 1..Len(Slice(st.medicalTermsSet, 15)) |-> JStr(st.medicalTermsSet[i])]]


(***************************************************************************)
(* fallbackExtraction of the multi-endpoint implementation (part_006,      *)
(* 245-397).                                                               *)
(***************************************************************************)
\* The ceiling on the cards of one extraction (267, 392).
MaxFallbackCardsHF == 25

\* questionTypes[index % 3] (288-295)
QuestionType(term, index) ==
  CASE index % 3 = 0 -> "What is " \o term \o "?"
    [] index % 3 = 1 -> "How would you define " \o term \o "?"
    [] index % 3 = 2 -> "Explain " \o term \o "."

\* One call of the forEach callback (266-385) on line l at index (from 0); st holds
\* cards, conceptsSet and medicalTermsSet.
FallbackLineHF(st, l, index, format, now) ==
  LET f == l.f6
      push(front, back, tag, difficulty) ==
        [st EXCEPT !.cards = Append(@, FallbackCard(now, index, front, back, format,
                                                    <<tag>>, difficulty))]
  IN
  IF Len(l.s) < 15 \/ Len(st.cards) >= MaxFallbackCardsHF THEN st
  ELSE IF f.def THEN
    IF Len(f.defn) > 10
    THEN [push(IF format = "cloze" THEN f.term \o ": {{c1::" \o f.defn \o "}}"
               ELSE QuestionType(f.term, index),
               f.defn, f.termTag, IF format = "cloze" THEN "medium" ELSE "easy")
          EXCEPT !.conceptsSet = SetAdd(@, f.term),
                 !.medicalTermsSet = IF f.termMedical THEN SetAdd(@, f.term) ELSE @]
    ELSE st
  ELSE IF f.comp THEN
    push(IF format = "cloze"
         THEN "Compare: {{c1::" \o f.concept1 \o "}} vs {{c2::" \o f.concept2 \o "}}"
         ELSE "What are the key differences between " \o f.concept1 \o " and "
                \o f.concept2 \o "?",
         l.s, f.compTag, "medium")
  ELSE IF f.cause THEN
    push(IF format = "cloze"
         THEN f.causeText \o " " \o f.relation \o " {{c1::" \o f.effect \o "}}"
         ELSE "What does " \o f.causeText \o " cause or lead to?",
         f.effect, f.causeTag, "medium")
  ELSE IF Len(f.content) > 20 /\ Len(f.content) < 300 THEN
    IF f.isAre /\ f.nparts = 2 /\ Len(f.part0) > 3 /\ Len(f.part1) > 5
    THEN push(IF format = "cloze" THEN f.clozeIs
              ELSE "What can you tell me about " \o f.part0Trim \o "?",
              f.part1Trim, f.contentTag, "easy")
    ELSE IF f.nwords > 8
    THEN push(IF format = "cloze" THEN f.clozeGeneric
              ELSE "Explain: " \o f.subject \o "...",
              f.content, f.contentTag, "easy")
    ELSE st
  ELSE st

RECURSIVE FallbackLoopHF(_, _, _, _, _, _)
\* lines.forEach over the positions lo..hi (from 1), in order: the first half of
\* the positions, then the second half.
FallbackLoopHF(st, lines, lo, hi, format, now) ==
  IF lo > hi THEN st
  ELSE IF lo = hi THEN FallbackLineHF(st, lines[lo], lo - 1, format, now)
  ELSE LET mid == (lo + hi) \div 2
           half == FallbackLoopHF(st, lines, lo, mid, format, now)
       IN \* at the ceiling every further call returns at once (267)
          IF Len(half.cards) >= MaxFallbackCardsHF THEN half
          ELSE FallbackLoopHF(half, lines, mid + 1, hi, format, now)

\* fallbackExtraction(text, format) of part_006.
fallbackExtractionHF(text, format, now) ==
  LET lines == FilteredLines(text)
      st == FallbackLoopHF([cards |-> << >>, conceptsSet |-> << >>,
                            medicalTermsSet |-> << >>], lines, 1, Len(lines),
                           format, now)
  IN [cards |-> Slice(st.cards, MaxFallbackCardsHF),
      concepts |-> [k \in 1..Len(Slice(st.conceptsSet, 15)) |-> JStr(st.conceptsSet[k])],
      summary |-> JStr(JoinCut(Slice(lines, 3), 250) \o "..."),
      medicalTerms |->
        [k \in 1..Len(Slice(st.medicalTermsSet, 10)) |-> JStr(st.medicalTermsSet[k])]]

(***************************************************************************)
(* String operations on texts (sequences of lines joined by "\n").         *)
(***************************************************************************)
RECURSIVE SumRaw(_)
SumRaw(lines) == IF lines = << >> THEN 0 ELSE Len(lines[1].raw) + SumRaw(Tail(lines))

\* text.length
TextLength(text) == SumRaw(text) + Len(text) - 1

\* The empty string: one empty line.
EmptyText == <<LBlank>>

\* Line l with other characters around the same trimmed content.
WithRaw(l, r) == [l EXCEPT !.raw = r]

\* A trim that removes nothing.
Untrimmed(text) == text

\* text.trim(): leading and trailing white space (blanks and newlines) removed.
TrimText(text) ==
  LET inked == {i \in 1..Len(text) : text[i].s # ""} IN
  IF inked = {} THEN EmptyText
  ELSE LET lo == CHOOSE i \in inked : \A j \in inked : i <= j
           hi == CHOOSE i \in inked : \A j \in inked : j <= i
           leftOf(l) == IF "ltrim" \in DOMAIN l THEN l.ltrim ELSE l.raw
           rightOf(l) == IF "rtrim" \in DOMAIN l THEN l.rtrim ELSE l.raw
       IN IF lo = hi THEN <<WithRaw(text[lo], text[lo].s)>>
          ELSE <<WithRaw(text[lo], leftOf(text[lo]))>> \o SubSeq(text, lo + 1, hi - 1)
                 \o <<WithRaw(text[hi], rightOf(text[hi]))>>

\* l.raw.substring(from, to): the whole line, nothing, or a piece of a run of x.
Piece(l, from, to) ==
  CASE from = 0 /\ to = Len(l.raw) -> l
    [] from = to -> LBlank
    [] "run" \in DOMAIN l -> XLine(to - from)

RECURSIVE SubLines(_, _, _, _, _)
\* The lines of text.substring(a, b), a < b: line i starts at offset o.
SubLines(text, i, o, a, b) ==
  IF i > Len(text) THEN << >>
  ELSE LET e == o + Len(text[i].raw)
           from == (IF a > o THEN a ELSE o) - o
           to == (IF b < e THEN b ELSE e) - o
       IN (IF e >= a /\ o <= b THEN <<Piece(text[i], from, to)>> ELSE << >>)
            \o SubLines(text, i + 1, e + 1, a, b)

\* text.substring(a, b) for 0 <= a < b
Substring(text, a, b) == SubLines(text, 1, 0, a, b)

(***************************************************************************)
(* intelligentChunk (part_007, 115-150).                                   *)
(***************************************************************************)
\* The segment budget (117, 127, 141, 143).
ChunkSize == 6000

RECURSIVE SplitFrom(_, _, _)
\* text.split(/\n\n+/): the text is cut at every run of two or more newlines, that
\* is between two lines that have one or more empty lines between them (the first
\* and the last line of the text count as lines even when empty).  cur is the
\* section being read, i the next line.
SplitFrom(text, i, cur) ==
  IF i > Len(text) THEN <<cur>>
  ELSE IF text[i].raw = "" /\ i < Len(text) THEN
    \* an empty line that is not the last: part of a run of newlines
    LET next == CHOOSE j \in (i + 1)..Len(text) :
                  /\ (text[j].raw # "" \/ j = Len(text))
                  /\ \A k \in (i + 1)..(j - 1) : text[k].raw = ""
    IN <<cur>> \o SplitFrom(text, next + 1, <<text[next]>>)
  ELSE SplitFrom(text, i + 1, Append(cur, text[i]))

Sections(text) == SplitFrom(text, 2, <<text[1]>>)

\* A join that keeps the running chunk and leaves the section out.
JoinParagraphsDropping(a, b) == a

\* a + '\n\n' + b
JoinParagraphs(a, b) == a \o <<LBlank>> \o b

RECURSIVE Accumulate(_, _, _, _)
\* The for loop over the sections (125-133): the chunks pushed and currentChunk.
Accumulate(sections, i, chunks, currentChunk) ==
  IF i > Len(sections) THEN [chunks |-> chunks, currentChunk |-> currentChunk]
  ELSE IF TextLength(currentChunk) + TextLength(sections[i]) > ChunkSize
          /\ TextLength(currentChunk) > 0
    THEN Accumulate(sections, i + 1, Append(chunks, TrimText(currentChunk)), sections[i])
  ELSE Accumulate(sections, i + 1, chunks,
                  IF TextLength(currentChunk) > 0
                  THEN JoinParagraphs(currentChunk, sections[i])
                  ELSE sections[i])

RECURSIVE SliceFrom(_, _)
\* The character-count loop (144-146) from offset i on.
SliceFrom(text, i) ==
  IF i >= TextLength(text) THEN << >>
  ELSE <<Substring(text, i, IF i + ChunkSize < TextLength(text)
                            THEN i + ChunkSize ELSE TextLength(text))>>
         \o SliceFrom(text, i + ChunkSize)

intelligentChunk(text) ==
  IF TextLength(text) <= ChunkSize THEN <<text>>
  ELSE LET acc == Accumulate(Sections(text), 1, << >>, EmptyText)
           chunks == IF TextLength(TrimText(acc.currentChunk)) > 0
                     THEN Append(acc.chunks, TrimText(acc.currentChunk))
                     ELSE acc.chunks
       IN IF Len(chunks) = 0 \/ (Len(chunks) = 1 /\ TextLength(chunks[1]) > ChunkSize)
          THEN SliceFrom(text, 0)
          ELSE chunks


(***************************************************************************)
(* combineResults (part_007, 152-176).                                     *)
(***************************************************************************)
\* x === y, and the equality of Set.add: by value for primitives, by identity
\* for arrays and objects (two values of a parsed document are never the same
\* object).
StrictEq(x, y) == x.t \notin {"arr", "obj"} /\ x = y

\* set.add(x) for a Set of JavaScript values kept in insertion order.
SetAddValue(set, x) ==
  IF \E k \in 1..Len(set) : StrictEq(set[k], x) THEN set ELSE Append(set, x)

RECURSIVE AddAll(_, _)
\* values.forEach(v => set.add(v))
AddAll(set, values) ==
  IF values = << >> THEN set ELSE AddAll(SetAddValue(set, values[1]), Tail(values))

RECURSIVE Flatten(_)
\* The concatenation of a sequence of sequences.
Flatten(seqs) == IF seqs = << >> THEN << >> ELSE seqs[1] \o Flatten(Tail(seqs))

RECURSIVE AllOf(_, _, _)
\* The Set after the forEach over results has added every value of field.
AllOf(results, field, set) ==
  IF results = << >> THEN set
  ELSE AllOf(Tail(results), field, AddAll(set, results[1][field]))

RECURSIVE JoinStrings(_, _)
\* strings.join(sep)
JoinStrings(strings, sep) ==
  IF strings = << >> THEN ""
  ELSE IF Len(strings) = 1 THEN strings[1].s
  ELSE strings[1].s \o sep \o JoinStrings(Tail(strings), sep)

\* A filter that keeps every card.
AllCardsKept(allCards) == allCards

\* allCards.filter((card, index, self) => index === self.findIndex(c => c.front === card.front))
UniqueCards(allCards) ==
  LET first(k) == \A j \in 1..(k - 1) : ~StrictEq(allCards[j].front, allCards[k].front)
      keep == {k \in 1..Len(allCards) : first(k)}
      RECURSIVE pick(_)
      pick(k) == IF k > Len(allCards) THEN << >>
                 ELSE (IF k \in keep THEN <<allCards[k]>> ELSE << >>) \o pick(k + 1)
  IN pick(1)

combineResults(results) ==
  LET allCards == Flatten([k \in 1..Len(results) |-> results[k].cards])
      summaries == SelectSeq([k \in 1..Len(results) |-> results[k].summary], Truthy)
  IN [cards |-> UniqueCards(allCards),
      concepts |-> AllOf(results, "concepts", << >>),
      medicalTerms |-> AllOf(results, "medicalTerms", << >>),
      summary |-> IF Len(summaries) > 0 THEN JStr(JoinStrings(summaries, " "))
                  ELSE JStr("Combined content from multiple sections")]

(***************************************************************************)
(* buildPrompt (part_007, 178-286).  The prompt is recorded by what varies *)
(* in its template: the branch, the card count, the language, the part     *)
(* label and the content.  chunkNum = 0 stands for an omitted argument.    *)
(***************************************************************************)
\* The two tests of 183-184 on the text: a match lies within one line.
isFrench(text) == \E k \in 1..Len(text) : text[k].french

\* Math.ceil(30 / totalChunks)
CeilDiv(n, d) == (n + d - 1) \div d

\* text.substring(0, 6000)
Head6000(text) == IF TextLength(text) <= 6000 THEN text ELSE Substring(text, 0, 6000)

buildPrompt(text, format, chunkNum, totalChunks) ==
  [template |-> IF format = "cloze" THEN "cloze" ELSE "question",
   cardCount |-> IF totalChunks > 1 THEN CeilDiv(30, totalChunks) ELSE 25,
   language |-> IF isFrench(text) THEN "French" ELSE "English",
   chunkInfo |-> IF chunkNum # 0 /\ totalChunks # 0
                 THEN <<" (Part ", chunkNum, " of ", totalChunks, ")">> ELSE << >>,
   content |-> Head6000(text)]


(***************************************************************************)
(* callOpenAI (part_007, 289-363): constants, errors and inputs.           *)
(***************************************************************************)
MAX_RETRIES == 5
INITIAL_DELAY_MS == 1000

RECURSIVE Pow2(_)
\* Math.pow(2, n)
Pow2(n) == IF n = 0 THEN 1 ELSE 2 * Pow2(n - 1)

\* Samples of Math.floor(Math.random() * 500): the least and the greatest value.
Jitters == {0, 499}

\* The pause between two chunks (86).
ChunkGapMs == 500

RateLimitPhrase == "Rate limit exceeded"

\* new Error(...) of 328, 341 and 347
InvalidKeyError ==
  Error(<<"Invalid API key. Please check your OpenAI API key in Settings.">>)
RateLimitError ==
  Error(<<RateLimitPhrase, " after multiple retries. Please wait and try again later.">>)
ApiError(status, detail) ==
  Error(<<"OpenAI API error (", ToString(status), "): ">> \o detail)

\* The rejection of fetch (no network) and the TypeError of reading
\* data.choices[0].message.content (322) on a body without choices.
FetchFailed == Error(<<"Failed to fetch">>)
BodyUnreadable == Error(<<"Cannot read properties of undefined (reading '0')">>)

\* error.message.includes(phrase)
Includes(error, phrase) == \E k \in 1..Len(error.message) : error.message[k] = phrase

\* Error responses other than 401 and 429: the status and what
\* error.error?.message || response.statusText yields.
OtherErrors ==
  {[status |-> 500, detail |-> <<"Internal Server Error">>],
   [status |-> 503, detail |-> <<RateLimitPhrase, " for the upstream pool">>]}

\* No value yet.
None == [none |-> TRUE]

(***************************************************************************)
(* Inputs of generateFlashcards.                                           *)
(***************************************************************************)
\* One segment: a heading, definitions, a paragraph break and more lines.
TShort ==
  <<LHeader, LMyopia, LEst, LBlank, LNum, LCornea, LValue, LKeyOnly, LPlain, LShortDef>>

\* Only white space.
TBlank == <<LSpaces, LBlank>>

\* Three paragraphs, more than 6000 characters together: two segments.
TLong == <<LMyopia, XLine(3500), LBlank, LEst, XLine(3500), LBlank, LCornea>>

\* The calls of generateFlashcards of a run: every format on the short text, one
\* format on the others.
Calls ==
  {<<TShort, f>> : f \in Formats}
    \cup {<<TBlank, "basic">>, <<EmptyText, "image">>, <<TLong, "cloze">>}

\* sessionStorage.getItem('openai_api_key') and import.meta.env.VITE_OPENAI_API_KEY
SessionKeys == {JNull, JStr("sk-user")}
EnvKeys == {Undefined, JStr(""), JStr("sk-env")}

\* getApiKey (27-30)
getApiKey(session, env) == Or(Or(session, env), JNull)

\* A test of the key that never routes to the fallback.
NoKeyIgnored(key) == FALSE

\* if (!apiKey) (55)
NoKey(key) == ~Truthy(key)

\* The result of 49.
EmptyResult ==
  [cards |-> << >>, concepts |-> << >>, summary |-> JStr(""), medicalTerms |-> << >>]


(***************************************************************************)
(* One run of generateFlashcards (part_007, 44-97) with its calls of       *)
(* callOpenAI (289-363).  A step is the code between two awaits.           *)
(***************************************************************************)
VARIABLES
  pc,          \* "idle", "wait" (a request is in flight), "sleep" (the backoff
               \* timer runs), "gap" (the timer between two chunks runs), "done"
  text,        \* the argument text
  format,      \* the argument format
  apiKey,      \* const apiKey (52)
  chunks,      \* const chunks (64)
  i,           \* the loop variable of 76, from 0
  allResults,  \* const allResults (74)
  prompt,      \* the prompt of the current call of callOpenAI
  attempt,     \* the loop variable of 293
  delay,       \* the delay of the running timer, 0 when none runs
  now,         \* Date.now(), counted in timers that have expired since the run began
               \* (the one clock of the page, whichever run set the timer)
  requests,    \* fetches issued by the current call of callOpenAI
  n429,        \* responses with status 429 that the current call has received
  slept,       \* backoff timers that the current call has waited for
  status,      \* the status of the last response (0: none, -1: fetch rejected)
  received,    \* choices[0].message.content of the last ok response, None when none
  callResult,  \* how the last call of callOpenAI ended, None while none has
  caught,      \* the error that the catch of 93 caught, None when none
  outcome,     \* what generateFlashcards returned, None before
  peer,        \* the variables of a second run that is suspended while this one
               \* takes its steps (all of the above but the clock), None when
               \* there is one run only
  fetched,     \* part_006: the endpoints that callHuggingFace has fetched, in order
  flashcards,  \* ankiService.ts: the argument flashcards of addNotes
  storage,     \* chrome.storage.local: the keys latestResponse and responseReady
  request,     \* background.js: generateFlashcards requests that
               \* handleGenerateFromWebapp has begun to handle
  polled,      \* the response that getLatestResponse has sent the webapp since the
               \* last request began, None when none
  sent,        \* responseExtracted messages on their way to the background script
  messages,    \* the page: its elements [data-message-author-role="assistant"]
  streaming,   \* the page: the latest message is being generated (474-478)
  prompts,     \* the page: prompts submitted that no message answers yet
  isWaitingForResponse,  \* content.js 3
  responseObserver,      \* content.js 4: JNull, or the observer with the locals
                         \* of the call of startResponseMonitoring that made it
  lastMessageCount,      \* content.js 5
  timers,      \* content.js: the timers of 279, 337 and 488 that have not fired
  timeouts     \* content.js 512: the 3-minute timers that have not fired, in the
               \* order they were set, each with the session that set it

vars ==
  <<pc, text, format, apiKey, chunks, i, allResults, prompt, attempt, delay, now,
    requests, n429, slept, status, received, callResult, caught, outcome, peer,
    fetched, flashcards, storage, request, polled, sent, messages, streaming, prompts,
    isWaitingForResponse, responseObserver, lastMessageCount, timers, timeouts>>

\* The variables of the other programs of the repository, which a run of
\* generateFlashcards leaves alone.
apart ==
  <<fetched, flashcards, storage, request, polled, sent, messages, streaming, prompts,
    isWaitingForResponse, responseObserver, lastMessageCount, timers, timeouts>>

\* The variables of the content script, of the page and of the background script.
extension ==
  <<storage, request, polled, sent, messages, streaming, prompts,
    isWaitingForResponse, responseObserver, lastMessageCount, timers, timeouts>>

\* The other programs before anything has run: the content script as it loads
\* (3-5), the storage without the two keys.
ApartIdle ==
  /\ fetched = << >>
  /\ flashcards = JNull
  /\ storage = [latestResponse |-> None, responseReady |-> FALSE]
  /\ request = 0
  /\ polled = None
  /\ sent = << >>
  /\ messages = << >>
  /\ streaming = FALSE
  /\ prompts = 0
  /\ isWaitingForResponse = FALSE
  /\ responseObserver = JNull
  /\ lastMessageCount = 0
  /\ timers = {}
  /\ timeouts = << >>

Init ==
  /\ pc = "idle"
  /\ text = EmptyText
  /\ format = "basic"
  /\ apiKey = JNull
  /\ chunks = << >>
  /\ i = 0
  /\ allResults = << >>
  /\ prompt = None
  /\ attempt = 0
  /\ delay = 0
  /\ now = 0
  /\ requests = 0
  /\ n429 = 0
  /\ slept = 0
  /\ status = 0
  /\ received = None
  /\ callResult = None
  /\ caught = None
  /\ outcome = None
  /\ peer = None
  /\ ApartIdle

\* return result: via tells which statement returned ("empty": 49, "fallback": 57
\* or 95, "upstream": 71 or 91).
Returns(via, result) ==
  /\ pc' = "done"
  /\ outcome' = [via |-> via, result |-> result]
  /\ delay' = 0

\* A catch that runs the fallback extractor on the chunk that failed.
CatchOverChunk(error) ==
  /\ caught' = error
  /\ Returns("fallback", fallbackExtraction(chunks[i + 1], format, now))

\* The catch of 93-96: the error is logged and the fallback extractor runs on the
\* whole text.
Catch(error) ==
  /\ caught' = error
  /\ Returns("fallback", fallbackExtraction(text, format, now))

\* await fetch(...) (295): the request leaves.
Fetch ==
  /\ pc' = "wait"
  /\ delay' = 0

\* callOpenAI(prompt, apiKey) up to its first await, for chunk k (from 0) of cs.
Call(cs, k, f) ==
  /\ prompt' = IF Len(cs) = 1 THEN buildPrompt(cs[1], f, 0, 0)
               ELSE buildPrompt(cs[k + 1], f, k + 1, Len(cs))
  /\ attempt' = 0
  /\ requests' = 1
  /\ n429' = 0
  /\ slept' = 0
  /\ status' = 0
  /\ received' = None
  /\ callResult' = None
  /\ Fetch

\* generateFlashcards(t, f) is called; session and env are what getApiKey reads.
generateFlashcards(t, f, session, env) ==
  /\ pc = "idle"
  /\ UNCHANGED <<peer, apart>>
  /\ text' = t
  /\ format' = f
  /\ UNCHANGED <<i, allResults, now>>
  /\ IF TextLength(TrimText(t)) = 0
     THEN /\ Returns("empty", EmptyResult)
          /\ UNCHANGED <<apiKey, chunks, prompt, attempt, requests, n429, slept,
                         status, received, callResult, caught>>
     ELSE /\ apiKey' = getApiKey(session, env)
          /\ IF NoKey(getApiKey(session, env))
             THEN /\ Returns("fallback", fallbackExtraction(t, f, now))
                  /\ UNCHANGED <<chunks, prompt, attempt, requests, n429, slept,
                                 status, received, callResult, caught>>
             ELSE /\ chunks' = intelligentChunk(t)
                  /\ Call(intelligentChunk(t), 0, f)
                  /\ UNCHANGED <<caught, outcome>>

\* callOpenAI has ended with result r (Return(reply) or Throw(error)); the run goes
\* on after the await of 70 or 79.
Resume(r) ==
  /\ callResult' = r
  /\ UNCHANGED <<text, format, apiKey, chunks, prompt, attempt, now, requests, slept>>
  /\ IF ~r.ok THEN Catch(r.error) /\ UNCHANGED <<i, allResults>>
     ELSE LET result == parseAIResponse(r.value, format, now) IN
       IF ~result.ok THEN Catch(result.error) /\ UNCHANGED <<i, allResults>>
       ELSE IF Len(chunks) = 1
         THEN Returns("upstream", result.value) /\ UNCHANGED <<i, allResults, caught>>
       ELSE /\ allResults' = Append(allResults, result.value)
            /\ IF i < Len(chunks) - 1
               THEN /\ pc' = "gap"
                    /\ delay' = ChunkGapMs
                    /\ UNCHANGED <<i, caught, outcome>>
               ELSE /\ Returns("upstream", combineResults(Append(allResults, result.value)))
                    /\ i' = i + 1
                    /\ UNCHANGED caught

\* The response is ok and its body holds reply as choices[0].message.content
\* (320-323): callOpenAI returns reply.
RespondOk(reply) ==
  /\ pc = "wait"
  /\ UNCHANGED <<peer, apart>>
  /\ status' = 200
  /\ received' = reply
  /\ UNCHANGED n429
  /\ Resume(Return(reply))

\* The response is ok but its body has no choices: 322 throws a TypeError, the
\* catch of 349 throws it on.
RespondOkBadBody ==
  /\ pc = "wait"
  /\ UNCHANGED <<peer, apart>>
  /\ status' = 200
  /\ UNCHANGED <<received, n429>>
  /\ Resume(Throw(BodyUnreadable))

\* A 401 handled as a 429 is: backoff and another attempt.
Respond401Retried ==
  /\ pc = "wait"
  /\ UNCHANGED <<peer, apart>>
  /\ status' = 401
  /\ UNCHANGED <<received, n429>>
  /\ IF attempt < MAX_RETRIES - 1
     THEN /\ delay' = INITIAL_DELAY_MS * Pow2(attempt)
          /\ pc' = "sleep"
          /\ UNCHANGED <<text, format, apiKey, chunks, i, allResults, prompt, attempt, now,
                         requests, slept, callResult, caught, outcome>>
     ELSE Resume(Throw(InvalidKeyError))

\* Status 401 (326-329): the catch of 349 throws the error on.
Respond401 ==
  /\ pc = "wait"
  /\ UNCHANGED <<peer, apart>>
  /\ status' = 401
  /\ UNCHANGED <<received, n429>>
  /\ Resume(Throw(InvalidKeyError))

\* A 429 handler that gives up one attempt early.
Respond429GivesUpEarly(jitter) ==
  /\ pc = "wait"
  /\ UNCHANGED <<peer, apart>>
  /\ status' = 429
  /\ n429' = n429 + 1
  /\ UNCHANGED received
  /\ IF attempt < MAX_RETRIES - 2
     THEN /\ delay' = INITIAL_DELAY_MS * Pow2(attempt) + jitter
          /\ pc' = "sleep"
          /\ UNCHANGED <<text, format, apiKey, chunks, i, allResults, prompt, attempt, now,
                         requests, slept, callResult, caught, outcome>>
     ELSE Resume(Throw(RateLimitError))

\* Status 429 (331-343): a backoff timer with jitter, or the error of 341 on the
\* last attempt (which the catch of 349 throws on since attempt is the last).
Respond429(jitter) ==
  /\ pc = "wait"
  /\ UNCHANGED <<peer, apart>>
  /\ status' = 429
  /\ n429' = n429 + 1
  /\ UNCHANGED received
  /\ IF attempt < MAX_RETRIES - 1
     THEN /\ delay' = INITIAL_DELAY_MS * Pow2(attempt) + jitter
          /\ pc' = "sleep"
          /\ UNCHANGED <<text, format, apiKey, chunks, i, allResults, prompt, attempt, now,
                         requests, slept, callResult, caught, outcome>>
     ELSE Resume(Throw(RateLimitError))

\* The backoff timer expires (337-338): continue, the next attempt's fetch.
Wake ==
  /\ pc = "sleep"
  /\ UNCHANGED <<peer, apart>>
  /\ now' = now + 1
  /\ slept' = slept + 1
  /\ attempt' = attempt + 1
  /\ requests' = requests + 1
  /\ Fetch
  /\ UNCHANGED <<text, format, apiKey, chunks, i, allResults, prompt, n429, status,
                 received, callResult, caught, outcome>>

\* Another error status (345-347): the error is thrown to the catch of 349, which
\* goes on with the next attempt when the message holds the rate-limit phrase and
\* attempts are left (353-356), and throws it on otherwise (357).
RespondOther(e) ==
  /\ pc = "wait"
  /\ UNCHANGED <<peer, apart>>
  /\ status' = e.status
  /\ UNCHANGED <<received, n429>>
  /\ IF Includes(ApiError(e.status, e.detail), RateLimitPhrase) /\ attempt < MAX_RETRIES - 1
     THEN /\ attempt' = attempt + 1
          /\ requests' = requests + 1
          /\ Fetch
          /\ UNCHANGED <<text, format, apiKey, chunks, i, allResults, prompt, now, slept,
                         callResult, caught, outcome>>
     ELSE Resume(Throw(ApiError(e.status, e.detail)))

\* fetch rejects (no network): the catch of 349 throws the error on.
FetchRejects ==
  /\ pc = "wait"
  /\ UNCHANGED <<peer, apart>>
  /\ status' = -1
  /\ UNCHANGED <<received, n429>>
  /\ Resume(Throw(FetchFailed))

\* A loop that asks for the first chunk again after the pause.
NextChunkOutOfOrder ==
  /\ pc = "gap"
  /\ UNCHANGED <<peer, apart>>
  /\ now' = now + 1
  /\ i' = i + 1
  /\ Call(chunks, 0, format)
  /\ UNCHANGED <<text, format, apiKey, chunks, allResults, caught, outcome>>

\* The timer between two chunks expires (86): i++, the next chunk's prompt and call.
NextChunk ==
  /\ pc = "gap"
  /\ UNCHANGED <<peer, apart>>
  /\ now' = now + 1
  /\ i' = i + 1
  /\ Call(chunks, i + 1, format)
  /\ UNCHANGED <<text, format, apiKey, chunks, allResults, caught, outcome>>

Next ==
  \/ \E c \in Calls, session \in SessionKeys, env \in EnvKeys :
       generateFlashcards(c[1], c[2], session, env)
  \/ \E reply \in Replies : RespondOk(reply)
  \/ RespondOkBadBody
  \/ Respond401
  \/ \E jitter \in Jitters : Respond429(jitter)
  \/ Wake
  \/ \E e \in OtherErrors : RespondOther(e)
  \/ FetchRejects
  \/ NextChunk

Spec == Init /\ [][Next]_vars

\* The run under the scheduling that the code sets up itself: a timer that was
\* started (337, 86) expires.  The answer to a request is the upstream's to give;
\* the fetch of 295 carries no signal and no timer races it.
SpecTimers == Init /\ [][Next]_vars /\ WF_vars(Wake) /\ WF_vars(NextChunk)

(***************************************************************************)
(* Two runs of generateFlashcards on one page (44-97).  The function is    *)
(* static and keeps what it works on in its parameters and local constants *)
(* (text, format, apiKey, chunks, allResults, i, and prompt, attempt and   *)
(* delay of callOpenAI): each run has its own.  The runs have in common    *)
(* sessionStorage, which a run reads once at line 52, and the clock.  The  *)
(* variables hold the run that takes the next step and peer the other; a   *)
(* run gives way to the other at an await, that is between two steps.      *)
(***************************************************************************)
\* The variables of the run that is taking steps.
Own ==
  [pc |-> pc, text |-> text, format |-> format, apiKey |-> apiKey, chunks |-> chunks,
   i |-> i, allResults |-> allResults, prompt |-> prompt, attempt |-> attempt,
   delay |-> delay, requests |-> requests, n429 |-> n429, slept |-> slept,
   status |-> status, received |-> received, callResult |-> callResult,
   caught |-> caught, outcome |-> outcome]

\* A run that has not been called yet.
IdleRun ==
  [pc |-> "idle", text |-> EmptyText, format |-> "basic", apiKey |-> JNull,
   chunks |-> << >>, i |-> 0, allResults |-> << >>, prompt |-> None, attempt |-> 0,
   delay |-> 0, requests |-> 0, n429 |-> 0, slept |-> 0, status |-> 0,
   received |-> None, callResult |-> None, caught |-> None, outcome |-> None]

InitTwo ==
  /\ pc = IdleRun.pc
  /\ text = IdleRun.text
  /\ format = IdleRun.format
  /\ apiKey = IdleRun.apiKey
  /\ chunks = IdleRun.chunks
  /\ i = IdleRun.i
  /\ allResults = IdleRun.allResults
  /\ prompt = IdleRun.prompt
  /\ attempt = IdleRun.attempt
  /\ delay = IdleRun.delay
  /\ requests = IdleRun.requests
  /\ n429 = IdleRun.n429
  /\ slept = IdleRun.slept
  /\ status = IdleRun.status
  /\ received = IdleRun.received
  /\ callResult = IdleRun.callResult
  /\ caught = IdleRun.caught
  /\ outcome = IdleRun.outcome
  /\ now = 0
  /\ peer = IdleRun
  /\ ApartIdle

\* What a switch does to all variables but allResults.
SwitchRest ==
  /\ peer # None
  /\ peer' = Own
  /\ pc' = peer.pc
  /\ text' = peer.text
  /\ format' = peer.format
  /\ apiKey' = peer.apiKey
  /\ chunks' = peer.chunks
  /\ i' = peer.i
  /\ prompt' = peer.prompt
  /\ attempt' = peer.attempt
  /\ delay' = peer.delay
  /\ requests' = peer.requests
  /\ n429' = peer.n429
  /\ slept' = peer.slept
  /\ status' = peer.status
  /\ received' = peer.received
  /\ callResult' = peer.callResult
  /\ caught' = peer.caught
  /\ outcome' = peer.outcome
  /\ UNCHANGED <<now, apart>>

\* A switch between runs that keep their per-chunk results in one list (a static
\* field of the class): the list stays as the other run left it.
SwitchSharingResults == SwitchRest /\ UNCHANGED allResults

\* The other run takes the next step: its parameters and locals come into view,
\* those of this run are kept for it; the clock is the same for both.
Switch == SwitchRest /\ allResults' = peer.allResults

\* Each run is called once, on the short text or on the text of two chunks, and
\* is answered with one of two documents or not at all.
NextTwo ==
  \/ \E c \in {<<TShort, "basic">>, <<TLong, "cloze">>}, session \in SessionKeys :
       generateFlashcards(c[1], c[2], session, Undefined)
  \/ \E reply \in {ReplyOne, ReplyTwo} : RespondOk(reply)
  \/ FetchRejects
  \/ NextChunk
  \/ Switch

SpecTwo == InitTwo /\ [][NextTwo]_vars

(***************************************************************************)
(* The fallback extractors applied to texts of up to MaxLines lines.       *)
(***************************************************************************)
MaxLines == 45

\* The lines that the texts are made of.
FallbackLines ==
  {LMyopia, LHeader, LEst, LNum, LShort, LTiny, LCornea, LPlain, LShortDef, LKeyOnly,
   LIs, LVs, LCause, LValue, LBlank, LSpaces, XLine(100), XLine(450)}

\* n lines, a and b in turn.
Alternating(a, b, n) == [k \in 1..n |-> IF k % 2 = 1 THEN a ELSE b]

FallbackTexts ==
  {Alternating(a, b, n) : a \in FallbackLines, b \in {LMyopia, LIs}, n \in 1..MaxLines}

InitFallback ==
  /\ pc = "idle"
  /\ text \in FallbackTexts
  /\ format \in Formats
  /\ apiKey = JNull
  /\ chunks = << >>
  /\ i = 0
  /\ allResults = << >>
  /\ prompt = None
  /\ attempt = 0
  /\ delay = 0
  /\ now = 0
  /\ requests = 0
  /\ n429 = 0
  /\ slept = 0
  /\ status = 0
  /\ received = None
  /\ callResult = None
  /\ caught = None
  /\ outcome = None
  /\ peer = None
  /\ ApartIdle

\* fallbackExtraction(text, format) of part_007
ApplyFallback ==
  /\ pc = "idle"
  /\ UNCHANGED <<peer, apart>>
  /\ Returns("fallback", fallbackExtraction(text, format, now))
  /\ UNCHANGED <<text, format, apiKey, chunks, i, allResults, prompt, attempt, now,
                 requests, n429, slept, status, received, callResult, caught>>

\* fallbackExtraction(text, format) of part_006
ApplyFallbackHF ==
  /\ pc = "idle"
  /\ UNCHANGED <<peer, apart>>
  /\ Returns("fallbackHF", fallbackExtractionHF(text, format, now))
  /\ UNCHANGED <<text, format, apiKey, chunks, i, allResults, prompt, attempt, now,
                 requests, n429, slept, status, received, callResult, caught>>

NextFallback == ApplyFallback \/ ApplyFallbackHF

SpecFallback == InitFallback /\ [][NextFallback]_vars

(***************************************************************************)
(* intelligentChunk applied to texts of up to MaxBlocks paragraph blocks.  *)
(***************************************************************************)
MaxBlocks == 3

\* Paragraph blocks: runs of half the budget, just under it and just over the
\* whole budget, a block of white space, a short line, a block of two lines.
ChunkBlocks ==
  {<<XLine(3000)>>, <<XLine(2999)>>, <<XLine(6001)>>, <<LSpaces>>, <<LMyopia>>,
   <<XLine(3000), LCornea>>}

RECURSIVE JoinBlocks(_, _)
\* The blocks joined by gap: one empty line ("\n\n") or two ("\n\n\n").
JoinBlocks(blocks, gap) ==
  IF Len(blocks) = 1 THEN blocks[1]
  ELSE blocks[1] \o gap \o JoinBlocks(Tail(blocks), gap)

ChunkTexts ==
  {JoinBlocks(blocks, gap) :
     blocks \in UNION {[1..n -> ChunkBlocks] : n \in 1..MaxBlocks},
     gap \in {<<LBlank>>, <<LBlank, LBlank>>}}

InitChunk ==
  /\ pc = "idle"
  /\ text \in ChunkTexts
  /\ format = "basic"
  /\ apiKey = JNull
  /\ chunks = << >>
  /\ i = 0
  /\ allResults = << >>
  /\ prompt = None
  /\ attempt = 0
  /\ delay = 0
  /\ now = 0
  /\ requests = 0
  /\ n429 = 0
  /\ slept = 0
  /\ status = 0
  /\ received = None
  /\ callResult = None
  /\ caught = None
  /\ outcome = None
  /\ peer = None
  /\ ApartIdle

\* const chunks = this.intelligentChunk(text) (64)
ApplyChunk ==
  /\ pc = "idle"
  /\ UNCHANGED <<peer, apart>>
  /\ chunks' = intelligentChunk(text)
  /\ pc' = "chunked"
  /\ UNCHANGED <<text, format, apiKey, i, allResults, prompt, attempt, delay, now,
                 requests, n429, slept, status, received, callResult, caught, outcome>>

\* const prompt = this.buildPrompt(chunks[i], format, i + 1, chunks.length) (69, 78)
\* for the chunks in turn.
ApplyPrompt ==
  /\ pc = "chunked"
  /\ UNCHANGED <<peer, apart>>
  /\ i < Len(chunks)
  /\ i' = i + 1
  /\ prompt' = IF Len(chunks) = 1 THEN buildPrompt(chunks[1], format, 0, 0)
               ELSE buildPrompt(chunks[i + 1], format, i + 1, Len(chunks))
  /\ UNCHANGED <<pc, text, format, apiKey, chunks, allResults, attempt, delay, now,
                 requests, n429, slept, status, received, callResult, caught, outcome>>

SpecChunk == InitChunk /\ [][ApplyChunk \/ ApplyPrompt]_vars

(***************************************************************************)
(* extractFlashcards of part_006 (40-81): the prompt is sent to up to three *)
(* endpoints.  pc is the await the run stands at: "primary" (59),           *)
(* "fallback" (66) or "backup" (73).                                        *)
(***************************************************************************)
\* HF_ENDPOINT_PRIMARY, HF_ENDPOINT_FALLBACK, HF_ENDPOINT_BACKUP (22-27), by the
\* await that fetches them.
HF_ENDPOINTS == <<"primary", "fallback", "backup">>

\* The errors that callHuggingFace throws on a response that is not ok (138-152),
\* on a fetch that rejects (status -1) and on a body without generated_text (166).
HFError(st) ==
  CASE st = -1 -> FetchFailed
    [] st = 503 -> Error(<<"Model is loading. Please wait 20 seconds and try again.">>)
    [] st = 404 -> Error(<<"Model not found or unavailable. Trying alternative model...">>)
    [] st = 429 -> Error(<<"Rate limit exceeded. Please wait a moment and try again.">>)
    [] st \in {401, 403} ->
         Error(<<"Invalid API token. Please check your Hugging Face token in Settings.">>)
    [] st = 200 -> Error(<<"Unexpected response format from Hugging Face">>)
    [] OTHER -> Error(<<"Hugging Face API error (", st, "): ">>)

\* callHuggingFace(prompt, endpoint) up to its await of fetch (121).
callHuggingFace(endpoint) ==
  /\ pc' = endpoint
  /\ fetched' = Append(fetched, endpoint)
  /\ requests' = requests + 1

\* extractFlashcards(t, f) is called while the static field apiKey holds key.
extractFlashcards(t, f, key) ==
  /\ pc = "idle"
  /\ UNCHANGED <<peer, flashcards, extension>>
  /\ text' = t
  /\ format' = f
  /\ apiKey' = key
  /\ UNCHANGED <<chunks, i, allResults, prompt, attempt, now, n429, slept, status,
                 received, callResult, caught>>
  /\ IF TextLength(TrimText(t)) = 0
     THEN /\ Returns("empty", EmptyResult)
          /\ UNCHANGED <<fetched, requests>>
     ELSE IF ~Truthy(key)
     THEN /\ Returns("fallbackHF", fallbackExtractionHF(t, f, now))
          /\ UNCHANGED <<fetched, requests>>
     ELSE /\ callHuggingFace(HF_ENDPOINTS[1])
          /\ UNCHANGED <<outcome, delay>>

\* A catch that asks the endpoint that failed once more.
HFCatchAsksAgain(error) ==
  /\ caught' = error
  /\ IF Len(fetched) < 3
     THEN callHuggingFace(pc) /\ UNCHANGED <<outcome, delay>>
     ELSE /\ Returns("fallbackHF", fallbackExtractionHF(text, format, now))
          /\ UNCHANGED <<fetched, requests>>

\* The catches of 61, 68 and 77: the error of the primary endpoint leads to the
\* fallback endpoint, that of the fallback endpoint to the backup endpoint, that of
\* the backup endpoint to the pattern-based extractor.
HFCatch(error) ==
  /\ caught' = error
  /\ IF pc = "primary"
     THEN callHuggingFace("fallback") /\ UNCHANGED <<outcome, delay>>
     ELSE IF pc = "fallback"
     THEN callHuggingFace("backup") /\ UNCHANGED <<outcome, delay>>
     ELSE /\ Returns("fallbackHF", fallbackExtractionHF(text, format, now))
          /\ UNCHANGED <<fetched, requests>>

\* The endpoint answers ok with generated_text reply: parseAIResponse returns
\* (60, 67, 74) or throws to the catch around it.
HFRespondOk(reply) ==
  /\ pc \in {"primary", "fallback", "backup"}
  /\ UNCHANGED <<peer, flashcards, extension>>
  /\ status' = 200
  /\ received' = reply
  /\ UNCHANGED <<text, format, apiKey, chunks, i, allResults, prompt, attempt, now,
                 n429, slept, callResult>>
  /\ IF parseAIResponseHF(reply, format, now).ok
     THEN /\ Returns("upstream", parseAIResponseHF(reply, format, now).value)
          /\ UNCHANGED <<fetched, requests, caught>>
     ELSE HFCatch(parseAIResponseHF(reply, format, now).error)

\* callHuggingFace throws: the fetch rejects (st = -1), the response is not ok, or
\* it is ok and its body has no generated_text (st = 200).
HFRespondFails(st) ==
  /\ pc \in {"primary", "fallback", "backup"}
  /\ UNCHANGED <<peer, flashcards, extension>>
  /\ status' = st
  /\ received' = None
  /\ UNCHANGED <<text, format, apiKey, chunks, i, allResults, prompt, attempt, now,
                 n429, slept, callResult>>
  /\ HFCatch(HFError(st))

NextHF ==
  \/ \E c \in Calls, key \in {JNull, JStr("hf_token")} : extractFlashcards(c[1], c[2], key)
  \/ \E reply \in {ReplyOne, ReplyMixed, ReplyProse, << >>} : HFRespondOk(reply)
  \/ \E st \in {-1, 503, 404, 429, 401, 500, 200} : HFRespondFails(st)

SpecHF == Init /\ [][NextHF]_vars

(***************************************************************************)
(* AnkiService.addNotes (ankiService.ts 76-220).  pc is the await the call *)
(* stands at: "deckNames" (90), "createDeck.deckNames" (59), "createDeck"   *)
(* (66) or "addNotes" (163); requests counts the calls of fetch (17).       *)
(***************************************************************************)
MaxNotes == 3

\* The argument flashcards: null, or a list of up to MaxNotes cards.
AnkiCards == {JNull} \cup {JArr([k \in 1..n |-> k]) : n \in 0..MaxNotes}

\* What AnkiConnect answers to addNotes for n notes: one entry for each note, the
\* id of the note it created or null; or an error; or a result that is no list.
\* A fetch that rejects has status -1.
AddNotesReplies(n) ==
  {[status |-> 200, error |-> JNull, result |-> JArr(ids)] :
     ids \in [1..n -> {JNull, JNum(1), JNum(2)}]}
  \cup {[status |-> 200, error |-> JNull, result |-> JNull],
        [status |-> 200, error |-> JStr("duplicate"), result |-> JNull],
        [status |-> 200, error |-> JStr("collection is not available"), result |-> JNull],
        [status |-> 500, error |-> JNull, result |-> JNull],
        [status |-> -1, error |-> JNull, result |-> JNull]}

\* invoke (14-41) on the reply.
invoke(reply) ==
  IF reply.status = -1 THEN Throw(FetchFailed)
  ELSE IF reply.status # 200 THEN Throw(Error(<<"HTTP error! status: ", ToString(reply.status)>>))
  ELSE IF Truthy(reply.error) THEN Throw(Error(<<reply.error.s>>))
  ELSE Return(reply.result)

\* A list of ids that keeps every entry of the result.
EveryId(result) == result

\* successIds (169-181): the entries that are not null, in order.
SuccessIds(result) == SelectSeq(result, LAMBDA id : id # JNull)

\* failedIndices (168-181)
FailedIndices(result) == {k \in 1..Len(result) : result[k] = JNull}

\* 163-219 once invoke has ended with r.
AddNotesEnds(r) ==
  LET thrown ==
        IF ~r.ok THEN r.error
        ELSE IF ~IsArray(r.value) THEN Error(<<"Unexpected response format from AnkiConnect">>)
        ELSE Error(<<"All ", ToString(Len(flashcards.a)), " cards failed to add. Check the console ",
                     "for details about which cards failed.">>)
  IN IF r.ok /\ IsArray(r.value) /\ Len(SuccessIds(r.value.a)) # 0
     THEN Returns("added", [success |-> Len(SuccessIds(r.value.a)),
                            failed |-> Cardinality(FailedIndices(r.value.a)),
                            ids |-> SuccessIds(r.value.a)])
     ELSE IF Includes(thrown, "duplicate")
     THEN Returns("error", Error(<<"Some cards already exist in Anki. Try changing the ",
                                   "deck name or check your Anki collection.">>))
     ELSE Returns("error", thrown)

\* addNotes(deckName, cards, format) is called.
addNotes(cards) ==
  /\ pc = "idle"
  /\ flashcards' = cards
  /\ UNCHANGED <<peer, fetched, extension>>
  /\ UNCHANGED <<text, format, apiKey, chunks, i, allResults, prompt, attempt, now,
                 n429, slept, status, received, callResult, caught>>
  /\ IF ~Truthy(cards) \/ Len(cards.a) = 0
     THEN Returns("error", Error(<<"No flashcards to add">>)) /\ UNCHANGED requests
     ELSE pc' = "deckNames" /\ requests' = requests + 1 /\ UNCHANGED <<outcome, delay>>

\* AnkiConnect answers a request of 89-96: the list of decks has the deck, lacks it,
\* or the request fails (the catch of 97 goes on to the notes).
DeckAnswer(answer) ==
  /\ pc \in {"deckNames", "createDeck.deckNames", "createDeck"}
  /\ UNCHANGED <<peer, fetched, flashcards, extension>>
  /\ UNCHANGED <<text, format, apiKey, chunks, i, allResults, prompt, attempt, now,
                 n429, slept, status, received, callResult, caught, outcome, delay>>
  /\ requests' = requests + 1
  /\ pc' = IF answer = "lacks" /\ pc = "deckNames" THEN "createDeck.deckNames"
           ELSE IF answer = "lacks" /\ pc = "createDeck.deckNames" THEN "createDeck"
           ELSE "addNotes"

\* AnkiConnect answers the request of 163.
AddNotesAnswer(reply) ==
  /\ pc = "addNotes"
  /\ UNCHANGED <<peer, fetched, flashcards, extension>>
  /\ UNCHANGED <<text, format, apiKey, chunks, i, allResults, prompt, attempt, now,
                 n429, slept, callResult, caught, requests>>
  /\ status' = reply.status
  /\ received' = reply
  /\ AddNotesEnds(invoke(reply))

NextAnki ==
  \/ \E cards \in AnkiCards : addNotes(cards)
  \/ \E answer \in {"has", "lacks", "fails"} : DeckAnswer(answer)
  \/ /\ pc = "addNotes"
     /\ \E reply \in AddNotesReplies(Len(flashcards.a)) : AddNotesAnswer(reply)

SpecAnki == Init /\ [][NextAnki]_vars

(***************************************************************************)
(* The browser extension: background.js, content.js, the ChatGPT page and  *)
(* the webapp that sends generateFlashcards and polls getLatestResponse.   *)
(* A response is the text of an assistant message: message is the place of *)
(* that message on the page and request the generateFlashcards request     *)
(* whose prompt the monitoring session that extracted it was started for.  *)
(***************************************************************************)
MaxRequests == 2
MaxSessions == 2
MaxMessages == 2

\* const requiredStableChecks (content.js 456)
requiredStableChecks == 3

\* The page shows no assistant message, or one that holds the JSON of an earlier
\* conversation.
InitExt ==
  /\ pc = "idle"
  /\ text = EmptyText
  /\ format = "basic"
  /\ apiKey = JNull
  /\ chunks = << >>
  /\ i = 0
  /\ allResults = << >>
  /\ prompt = None
  /\ attempt = 0
  /\ delay = 0
  /\ now = 0
  /\ requests = 0
  /\ n429 = 0
  /\ slept = 0
  /\ status = 0
  /\ received = None
  /\ callResult = None
  /\ caught = None
  /\ outcome = None
  /\ peer = None
  /\ fetched = << >>
  /\ flashcards = JNull
  /\ storage = [latestResponse |-> None, responseReady |-> FALSE]
  /\ request = 0
  /\ polled = None
  /\ sent = << >>
  /\ messages \in {<< >>, <<TRUE>>}
  /\ streaming = FALSE
  /\ prompts = 0
  /\ isWaitingForResponse = FALSE
  /\ responseObserver = JNull
  /\ lastMessageCount = 0
  /\ timers = {}
  /\ timeouts = << >>

\* The variables that the extension leaves alone.
run ==
  <<pc, text, format, apiKey, chunks, i, allResults, prompt, attempt, delay, now,
    requests, n429, slept, status, received, callResult, caught, outcome, peer,
    fetched, flashcards>>

\* setTimeout(fn, ...) for the request r
Timer(fn, r) == [fn |-> fn, request |-> r]

\* The monitoring sessions that have started or are on their way.
Sessions ==
  (IF responseObserver = JNull THEN 0 ELSE responseObserver.session)
    + Cardinality({t \in timers : t.fn # "handleResponseExtraction"})

\* handleGenerateFromWebapp (background.js 82-137): the two keys are removed, the
\* pending prompt is stored and the timer of 118 is set.  The webapp starts to
\* poll anew.
handleGenerateFromWebapp ==
  /\ request < MaxRequests
  /\ Sessions < MaxSessions
  /\ request' = request + 1
  /\ storage' = [latestResponse |-> None, responseReady |-> FALSE]
  /\ polled' = None
  /\ timers' = timers \cup {Timer("fillPromptAndSubmit", request + 1)}
  /\ UNCHANGED <<sent, messages, streaming, prompts, isWaitingForResponse,
                 responseObserver, lastMessageCount, timeouts, run>>

\* getLatestResponse (background.js 20-51): the stored response is sent when the
\* flag is set, and the flag is cleared; otherwise the webapp is told to wait.
getLatestResponse ==
  /\ request > 0
  /\ IF storage.responseReady /\ storage.latestResponse # None
     THEN /\ polled' = storage.latestResponse
          /\ storage' = [storage EXCEPT !.responseReady = FALSE]
     ELSE UNCHANGED <<polled, storage>>
  /\ UNCHANGED <<request, sent, messages, streaming, prompts, isWaitingForResponse,
                 responseObserver, lastMessageCount, timers, timeouts, run>>

\* onMessage responseExtracted (background.js 57-80)
responseExtracted ==
  /\ sent # << >>
  /\ storage' = [latestResponse |-> Head(sent), responseReady |-> TRUE]
  /\ sent' = Tail(sent)
  /\ UNCHANGED <<request, polled, messages, streaming, prompts, isWaitingForResponse,
                 responseObserver, lastMessageCount, timers, timeouts, run>>

\* The timer of background.js 118 fires: fillPromptAndSubmit reaches the content
\* script (172-175), fillChatGPTPrompt (233-292) fills the input when it finds
\* one and sets the timer of 279.
fillPromptAndSubmit(t, found) ==
  /\ t \in timers
  /\ t.fn = "fillPromptAndSubmit"
  /\ timers' = (timers \ {t}) \cup (IF found THEN {Timer("submitPrompt", t.request)} ELSE {})
  /\ UNCHANGED <<storage, request, polled, sent, messages, streaming, prompts,
                 isWaitingForResponse, responseObserver, lastMessageCount, timeouts, run>>

\* submitPrompt (294-432) for the request r: the prompt goes to ChatGPT when the
\* click or the Enter key gets through (went); every path sets a timer for
\* startResponseMonitoring (337, 395, 419, 428).
Submit(r, went) ==
  /\ prompts' = IF went THEN prompts + 1 ELSE prompts
  /\ UNCHANGED <<storage, request, polled, sent, messages, streaming,
                 isWaitingForResponse, responseObserver, lastMessageCount, timeouts, run>>

\* The timer of 279 fires.
submitPrompt(t, went) ==
  /\ t \in timers
  /\ t.fn = "submitPrompt"
  /\ timers' = (timers \ {t}) \cup {Timer("startResponseMonitoring", t.request)}
  /\ Submit(t.request, went)

\* retrySubmit (155-163): the button of the debug panel is clicked and the input is
\* found.
retrySubmit(went) ==
  /\ request > 0
  /\ Sessions < MaxSessions
  /\ Timer("startResponseMonitoring", request) \notin timers
  /\ timers' = timers \cup {Timer("startResponseMonitoring", request)}
  /\ Submit(request, went)

\* new MutationObserver(...) of 459 with the locals of 454-455; session numbers the
\* calls of startResponseMonitoring, recorded is the count of 446.
Observer(session, r, count) ==
  [session |-> session, request |-> r, recorded |-> count, connected |-> TRUE,
   stableChecks |-> 0, generationComplete |-> FALSE]

\* startResponseMonitoring (434-521): the observer in place is disconnected and
\* replaced, the count of messages recorded, the flag set and the 3-minute timer set.
startResponseMonitoring(t) ==
  /\ t \in timers
  /\ t.fn = "startResponseMonitoring"
  /\ timers' = timers \ {t}
  /\ lastMessageCount' = Len(messages)
  /\ isWaitingForResponse' = TRUE
  /\ responseObserver' =
       Observer(IF responseObserver = JNull THEN 1 ELSE responseObserver.session + 1,
                t.request, Len(messages))
  /\ timeouts' = Append(timeouts, IF responseObserver = JNull THEN 1
                                  ELSE responseObserver.session + 1)
  /\ UNCHANGED <<storage, request, polled, sent, messages, streaming, prompts, run>>

\* The callback of the observer (459-499) on a page of n assistant messages that
\* is generating or not.
Observe(n, isGenerating) ==
  IF responseObserver = JNull \/ ~responseObserver.connected
  THEN UNCHANGED <<responseObserver, lastMessageCount, timers>>
  ELSE LET o == responseObserver
           count == IF n > lastMessageCount /\ ~o.generationComplete
                    THEN n ELSE lastMessageCount
           checked == n > 0 /\ n >= count
           stable == checked /\ ~isGenerating /\ ~o.generationComplete
           complete == stable /\ o.stableChecks + 1 >= requiredStableChecks
       IN /\ lastMessageCount' = count
          /\ responseObserver' =
               [o EXCEPT !.stableChecks = IF stable THEN @ + 1
                                          ELSE IF checked /\ isGenerating THEN 0 ELSE @,
                         !.generationComplete = @ \/ complete]
          /\ timers' = IF complete
                       THEN timers \cup {[fn |-> "handleResponseExtraction",
                                          observer |-> o]}
                       ELSE timers

\* ChatGPT begins to answer a prompt: a new assistant message, which will hold
\* JSON or not when it is complete.
NewMessage(json) ==
  /\ prompts > 0
  /\ ~streaming
  /\ Len(messages) < MaxMessages
  /\ messages' = Append(messages, json)
  /\ streaming' = TRUE
  /\ prompts' = prompts - 1
  /\ Observe(Len(messages) + 1, TRUE)
  /\ UNCHANGED <<storage, request, polled, sent, isWaitingForResponse, timeouts, run>>

\* ChatGPT completes the message.
StreamEnds ==
  /\ streaming
  /\ streaming' = FALSE
  /\ Observe(Len(messages), FALSE)
  /\ UNCHANGED <<storage, request, polled, sent, messages, prompts,
                 isWaitingForResponse, timeouts, run>>

\* Any other change under the observed container (502-507): a node is added or a
\* class changes.
Mutation ==
  /\ Observe(Len(messages), streaming)
  /\ UNCHANGED <<storage, request, polled, sent, messages, streaming, prompts,
                 isWaitingForResponse, timeouts, run>>

\* The timer of 488 fires: handleResponseExtraction (523-575) with
\* extractChatGPTResponse (577-615) on the latest message.
handleResponseExtraction(t) ==
  /\ t \in timers
  /\ t.fn = "handleResponseExtraction"
  /\ timers' = timers \ {t}
  /\ IF Len(messages) > 0 /\ messages[Len(messages)]
     THEN /\ responseObserver' = [responseObserver EXCEPT !.connected = FALSE]
          /\ isWaitingForResponse' = FALSE
          /\ sent' = Append(sent, [message |-> Len(messages),
                                   request |-> t.observer.request])
          /\ storage' = [latestResponse |-> [message |-> Len(messages),
                                             request |-> t.observer.request],
                         responseReady |-> TRUE]
     ELSE UNCHANGED <<responseObserver, isWaitingForResponse, sent, storage>>
  /\ UNCHANGED <<request, polled, messages, streaming, prompts, lastMessageCount,
                 timeouts, run>>

\* The 3-minute timer of 512-520 that was set first fires.
Timeout ==
  /\ timeouts # << >>
  /\ timeouts' = Tail(timeouts)
  /\ IF isWaitingForResponse
     THEN /\ responseObserver' = [responseObserver EXCEPT !.connected = FALSE]
          /\ isWaitingForResponse' = FALSE
     ELSE UNCHANGED <<responseObserver, isWaitingForResponse>>
  /\ UNCHANGED <<storage, request, polled, sent, messages, streaming, prompts,
                 lastMessageCount, timers, run>>

NextExt ==
  \/ handleGenerateFromWebapp
  \/ getLatestResponse
  \/ responseExtracted
  \/ \E t \in timers, found \in BOOLEAN : fillPromptAndSubmit(t, found)
  \/ \E t \in timers, went \in BOOLEAN : submitPrompt(t, went)
  \/ \E went \in BOOLEAN : retrySubmit(went)
  \/ \E t \in timers : startResponseMonitoring(t)
  \/ \E json \in BOOLEAN : NewMessage(json)
  \/ StreamEnds
  \/ Mutation
  \/ \E t \in timers : handleResponseExtraction(t)
  \/ Timeout

SpecExt == InitExt /\ [][NextExt]_vars

(***************************************************************************)
(* Properties.                                                             *)
(***************************************************************************)
\* A front or back that is present and not the empty string.
NonEmpty(v) == v \notin {Undefined, JNull, JStr("")}

\* The value that line 95 (and 57) returns for the run's text and format.
FallbackOutcome == [via |-> "fallback", result |-> fallbackExtraction(text, format, now)]

\* C1: when the upstream answers 401 in a run that has a credential, the run ends
\* in a failure that carries the invalid-key error to the caller; no result of the
\* fallback extractor is returned in its place.
C1_UnauthorizedReachesCaller ==
  (pc = "done" /\ status = 401) =>
    (outcome.via = "error" /\ outcome.result = InvalidKeyError)

\* C2: a 401 ends callOpenAI at once: the call has thrown the invalid-key error, no
\* timer runs, no request beyond the one that was answered has been issued (one
\* request when the 401 answers the first attempt) and the run is over.
C2_UnauthorizedEndsCall ==
  status = 401 =>
    /\ pc = "done"
    /\ delay = 0
    /\ callResult = Throw(InvalidKeyError)
    /\ requests = attempt + 1
    /\ (n429 = 0 /\ attempt = 0 => requests = 1)

\* C2 happens: a 401 has answered the first attempt of a call.
C2_Witness == status = 401 /\ attempt = 0 /\ requests = 1 /\ pc = "done"

\* C3: for every k in 1..5, when the first k-1 attempts were each answered 429 and
\* attempt k succeeded, callOpenAI returns the reply of attempt k after exactly k
\* requests; when 5 attempts were answered 429 the call throws the rate-limit error
\* after exactly 5 requests, and that error is thrown after no fewer than 5.
C3_RetriesUntilSuccessOrFifth429 ==
  /\ \A k \in 1..5 :
       (callResult # None /\ callResult.ok /\ status = 200 /\ n429 = k - 1
        /\ attempt = k - 1) =>
         (requests = k /\ callResult.value = received)
  /\ n429 = 5 => (callResult = Throw(RateLimitError) /\ requests = 5)
  /\ callResult = Throw(RateLimitError) => requests = 5

\* C3 happens: four attempts answered 429, the fifth answered with a reply.
C3_Witness ==
  callResult # None /\ callResult.ok /\ n429 = 4 /\ requests = 5 /\ received \in Replies

\* C4: a further request of a call is issued only after a 429 and only after the
\* backoff timer of the failed attempt a, whose delay is at least 1000 * 2^a and
\* less than 1000 * 2^a + 500; no timer is started after the last attempt.
C4_RetryOnlyAfterBackoff ==
  [][/\ attempt' = attempt + 1 =>
          /\ status = 429
          /\ pc = "sleep"
          /\ delay >= 1000 * Pow2(attempt)
          /\ delay < 1000 * Pow2(attempt) + 500
     /\ pc' = "sleep" => attempt < 4]_vars

\* The replies whose document parses and yields no valid card.
ZeroCardReplies == {ReplyEmptyCards, ReplyNoCards, ReplyAllInvalid}

\* C5: when a reply parses as JSON and its cards are absent, empty or all invalid,
\* the run returns the fallback extractor's result, not a result of the upstream
\* path.
C5_ZeroCardsTriggerFallback ==
  (pc = "done" /\ status = 200 /\ received \in ZeroCardReplies) =>
    outcome.via = "fallback"

\* C6: every card of a result that generateFlashcards returns, from the upstream
\* path or from the fallback extractor, has a non-empty front and a non-empty back.
C6_NoEmptyFrontOrBack ==
  pc = "done" =>
    \A k \in 1..Len(outcome.result.cards) :
      /\ NonEmpty(outcome.result.cards[k].front)
      /\ NonEmpty(outcome.result.cards[k].back)

\* C6 happens: a reply holding a record with the empty front and valid records has
\* been parsed and its result returned.
C6_Witness ==
  /\ pc = "done"
  /\ outcome.via = "upstream"
  /\ received = ReplyMixed
  /\ Len(outcome.result.cards) > 0

\* C7: in a run over several chunks, when the call or the parse of a chunk fails
\* the run returns exactly the fallback extractor's result over the whole text, and
\* no card obtained from an earlier chunk is part of it.
C7_ChunkFailureFallsBackOnWholeText ==
  (pc = "done" /\ Len(chunks) > 1 /\ caught # None) =>
    /\ outcome = FallbackOutcome
    /\ \A k \in 1..Len(allResults) : \A j \in 1..Len(allResults[k].cards) :
         \A c \in 1..Len(outcome.result.cards) :
           outcome.result.cards[c] # allResults[k].cards[j]

\* C7 happens: the second chunk failed after the first had yielded cards.
C7_Witness ==
  /\ pc = "done"
  /\ Len(chunks) > 1
  /\ caught # None
  /\ i = 1
  /\ Len(allResults) = 1
  /\ Len(allResults[1].cards) > 0
  /\ Len(outcome.result.cards) > 0

\* C8: without a credential, generateFlashcards on text that is not blank issues no
\* request and returns the fallback extractor's result for the text and format.
C8_NoCredentialNoRequest ==
  ~Truthy(apiKey) =>
    /\ requests = 0
    /\ pc \in {"idle", "done"}
    /\ (pc = "done" /\ outcome.via # "empty") => (outcome = FallbackOutcome /\ caught = None)

\* C8 happens: a run without a credential has returned fallback cards.
C8_Witness ==
  /\ pc = "done"
  /\ ~Truthy(apiKey)
  /\ outcome.via = "fallback"
  /\ Len(outcome.result.cards) > 0

\* C9: fallbackExtraction yields a result for every text and format, with at most
\* 40 cards in part_007 and at most 25 in part_006.
C9_FallbackBounded ==
  /\ pc = "idle" =>
       /\ Len(fallbackExtraction(text, format, now).cards) <= 40
       /\ Len(fallbackExtractionHF(text, format, now).cards) <= 25
  /\ outcome # None =>
       /\ DOMAIN outcome.result = {"cards", "concepts", "summary", "medicalTerms"}
       /\ outcome.via = "fallback" => Len(outcome.result.cards) <= 40
       /\ outcome.via = "fallbackHF" => Len(outcome.result.cards) <= 25

\* C9 happens: more than 40 lines of the text match a pattern and 40 cards are
\* returned.
C9_Witness ==
  /\ outcome # None
  /\ outcome.via = "fallback"
  /\ Len(SelectSeq(text, LAMBDA l : l = LMyopia)) > 40
  /\ Len(outcome.result.cards) = 40

\* C10: a reply that is one well-formed document with one valid card, wrapped in
\* code-fence markers, is decoded, and the run returns exactly one card with that
\* card's front and back rather than fallback cards.
C10_FencedReplyDecoded ==
  (pc = "done" /\ Len(chunks) = 1 /\ status = 200 /\ received = ReplyFenced) =>
    /\ outcome.via = "upstream"
    /\ Len(outcome.result.cards) = 1
    /\ outcome.result.cards[1].front = JStr("Q")
    /\ outcome.result.cards[1].back = JStr("A")

\* The one card of the bare array [{"front": "Q", "back": "A"}] is what r holds.
RecoversBareArray(r) ==
  /\ r.ok
  /\ Len(r.value.cards) = 1
  /\ r.value.cards[1].front = JStr("Q")
  /\ r.value.cards[1].back = JStr("A")

\* C11: a reply that is only a bare array of card records is recovered: the run
\* that received it returns its valid record as the one card of an upstream
\* result, by the parser of part_007 or, failing that, the array is wrapped and
\* decoded by the parser of part_006.
C11_BareArrayRecovered ==
  (pc = "done" /\ Len(chunks) = 1 /\ status = 200 /\ received = ReplyBareArray) =>
    \/ /\ outcome.via = "upstream"
       /\ RecoversBareArray(Return(outcome.result))
    \/ RecoversBareArray(parseAIResponseHF(received, format, now))

\* The segment holds one paragraph block: no empty line parts it.
SingleBlock(segment) == Len(Sections(segment)) = 1

\* C12: for a text longer than 6000 characters every segment of intelligentChunk
\* has at most 6000 characters, unless the segment is one paragraph block that is
\* itself longer than 6000 characters.
C12_SegmentsWithinBudget ==
  (pc = "chunked" /\ TextLength(text) > 6000) =>
    \A k \in 1..Len(chunks) :
      TextLength(chunks[k]) <= 6000 \/ SingleBlock(chunks[k])

RECURSIVE Ink(_)
\* The content of the lines without the white space around them, in order.
Ink(lines) == IF lines = << >> THEN "" ELSE lines[1].s \o Ink(Tail(lines))

\* The trimmed lines that are not blank, in order.
InkedLines(lines) == SelectSeq([k \in 1..Len(lines) |-> lines[k].s], LAMBDA x : x # "")

RECURSIVE SumLengths(_)
SumLengths(segments) ==
  IF segments = << >> THEN 0 ELSE TextLength(segments[1]) + SumLengths(Tail(segments))

\* C13: the segments of a text that is not empty, put one after the other, hold
\* the content of the text in the same order, nothing lost or repeated: either no
\* character at all is missing (the cuts fall at fixed offsets) or every line
\* that is not blank is there, whole and in order, and only white space between
\* paragraphs differs.
C13_SegmentsReproduceText ==
  (pc = "chunked" /\ TextLength(text) > 0) =>
    /\ Ink(Flatten(chunks)) = Ink(text)
    /\ \/ SumLengths(chunks) = TextLength(text)
       \/ InkedLines(Flatten(chunks)) = InkedLines(text)

\* C13 happens: a text over the budget was cut at a paragraph break into several
\* segments, and white space at the cut is gone.
C13_Witness ==
  /\ pc = "chunked"
  /\ TextLength(text) > 6000
  /\ Len(chunks) > 1
  /\ SumLengths(chunks) < TextLength(text)
  /\ \E k \in 1..Len(chunks) : ~SingleBlock(chunks[k])

\* C14: for a text that is not blank no segment of intelligentChunk is empty or
\* only white space, and a text of at most 6000 characters is the sole segment.
C14_NoBlankSegment ==
  (pc = "chunked" /\ TextLength(TrimText(text)) > 0) =>
    /\ \A k \in 1..Len(chunks) : TextLength(TrimText(chunks[k])) > 0
    /\ TextLength(text) <= 6000 => chunks = <<text>>

\* The cards of the per-chunk results of the run, one result after the other.
AllCards == Flatten([k \in 1..Len(allResults) |-> allResults[k].cards])

\* The positions of AllCards whose front no earlier card has.
FirstOfFront == {k \in 1..Len(AllCards) : \A j \in 1..(k - 1) : AllCards[j].front # AllCards[k].front}

\* The fronts of the cards of result r differ from one another.
DistinctFronts(r) ==
  \A j, k \in 1..Len(r.cards) : r.cards[j].front = r.cards[k].front => j = k

\* C15: the cards that combineResults returns are the cards of the results in
\* order without those whose front an earlier card has: the a-th card returned is
\* the a-th card that is the first of its front, so fronts that differ are both
\* kept; and combining one result whose fronts differ keeps the number of cards.
C15_CombineKeepsFirstOfEachFront ==
  (pc = "done" /\ outcome.via = "upstream" /\ Len(chunks) > 1) =>
    /\ Len(outcome.result.cards) = Cardinality(FirstOfFront)
    /\ \A a \in 1..Len(outcome.result.cards) : \E k \in FirstOfFront :
         /\ outcome.result.cards[a] = AllCards[k]
         /\ Cardinality({j \in FirstOfFront : j < k}) = a - 1
    /\ \A k \in 1..Len(allResults) : DistinctFronts(allResults[k]) =>
         Len(combineResults(<<allResults[k]>>).cards) = Len(allResults[k].cards)

\* C15 happens: the results of two chunks were combined, a card whose front an
\* earlier chunk had was removed and cards with other fronts were kept.
C15_Witness ==
  /\ pc = "done"
  /\ outcome.via = "upstream"
  /\ Len(allResults) = 2
  /\ Len(allResults[1].cards) > 0
  /\ DistinctFronts(allResults[2])
  /\ Len(outcome.result.cards) < Len(AllCards)
  /\ Len(outcome.result.cards) >= 2

\* C16: when fetch rejects, callOpenAI goes on to another attempt as it does after
\* a 429; the failure ends the call only when the five attempts are used up.
C16_TransportFailureRetried ==
  (status = -1 /\ callResult # None /\ ~callResult.ok) => requests = 5

\* C18: a request is issued only when no other is in flight (or in the step that
\* the answer to the one in flight ends the attempt); in a run over several chunks
\* the request is for the chunk after those whose results are in allResults, each
\* of them parsed and validated, and the pause before the next chunk begins only
\* after the reply to the chunk was received and its result stored.
C18_ChunksOneAtATime ==
  [][/\ pc' = "wait" =>
          /\ pc = "wait" => (attempt' = attempt + 1 /\ status' \notin {0, 200})
          /\ Len(chunks') > 1 =>
               /\ i' < Len(chunks')
               /\ Len(allResults') = i'
               /\ prompt' = buildPrompt(chunks'[i' + 1], format', i' + 1, Len(chunks'))
               /\ \A k \in 1..i' : \A c \in 1..Len(allResults'[k].cards) :
                    KeepCard(allResults'[k].cards[c])
     /\ pc' = "gap" =>
          /\ pc = "wait" /\ status' = 200 /\ callResult' = Return(received')
          /\ i' = i
          /\ allResults' = Append(allResults, parseAIResponse(received', format, now).value)
     /\ (pc = "gap" /\ pc' # "gap") => (pc' = "wait" /\ i' = i + 1)]_vars

\* C18 happens: the request for the second chunk is in flight and the first
\* chunk's result is stored.
C18_Witness ==
  /\ pc = "wait"
  /\ Len(chunks) > 1
  /\ i = 1
  /\ Len(allResults) = 1
  /\ Len(allResults[1].cards) > 0

\* C20: for a text that is empty or only white space generateFlashcards returns
\* the empty result at line 49: no request was issued, no chunk made, no error
\* caught and the fallback extractor was not run, whatever the stored credential.
C20_BlankTextEmptyResult ==
  (pc = "done" /\ \A k \in 1..Len(text) : text[k].s = "") =>
    /\ outcome = [via |-> "empty", result |-> EmptyResult]
    /\ requests = 0
    /\ chunks = << >>
    /\ caught = None
    /\ callResult = None

\* C20 happens: a run on a text of white space alone has returned.
C20_Witness == pc = "done" /\ text = TBlank /\ outcome.via = "empty"

\* C17: a run that has begun returns a result in the end, since no attempt waits
\* for its answer without limit; a call issues at most 5 requests and a run makes
\* at most one call for each of its N chunks, at most 5 * N requests in all.
C17_RunReturns ==
  /\ [](requests <= 5 /\ i <= Len(chunks))
  /\ (pc # "idle") ~> (pc = "done")

\* What parseAIResponse yields for the last reply to this run at clock reading t.
ParsedAt(t) == parseAIResponse(received, format, t).value

\* C19: with two runs taking turns at their awaits, the chunk list, the per-chunk
\* results and the returned result of a run are those that its own text, format,
\* credential and replies give (at some reading of the clock): the chunks are
\* intelligentChunk of its text, allResults holds one result for each of its
\* chunks answered so far, the last one parsed from its last reply in its format,
\* and the result is that parse, the combination of its own per-chunk results, or
\* the fallback extraction of its own text.
C19_RunsShareNoState ==
  /\ pc \in {"wait", "sleep", "gap"} =>
       (Truthy(apiKey) /\ chunks = intelligentChunk(text))
  /\ pc \in {"wait", "sleep"} => Len(allResults) = (IF Len(chunks) > 1 THEN i ELSE 0)
  /\ pc = "gap" =>
       /\ Len(allResults) = i + 1
       /\ \E t \in 0..now : allResults[i + 1] = ParsedAt(t)
  /\ \A k \in 1..Len(allResults) : \A c \in 1..Len(allResults[k].cards) :
       allResults[k].cards[c].type = format
  /\ (pc = "done" /\ outcome.via = "upstream") =>
       IF Len(chunks) = 1
       THEN allResults = << >> /\ \E t \in 0..now : outcome.result = ParsedAt(t)
       ELSE /\ chunks = intelligentChunk(text)
            /\ Len(allResults) = Len(chunks)
            /\ \E t \in 0..now : allResults[Len(allResults)] = ParsedAt(t)
            /\ outcome.result = combineResults(allResults)
  /\ (pc = "done" /\ outcome.via = "fallback") =>
       \E t \in 0..now : outcome.result = fallbackExtraction(text, format, t)
  /\ (pc = "done" /\ outcome.via = "empty") => outcome.result = EmptyResult

\* C19 happens: two runs over several chunks have both returned a combined result
\* and both parsed their first chunk's reply before either pause had ended, so
\* they were under way at the same time.
C19_Witness ==
  /\ pc = "done" /\ outcome.via = "upstream" /\ Len(chunks) > 1
  /\ peer # None
  /\ peer.pc = "done" /\ peer.outcome.via = "upstream" /\ Len(peer.chunks) > 1
  /\ allResults[1].cards[1].id.t = 0
  /\ peer.allResults[1].cards[1].id.t = 0
  /\ peer.allResults # allResults

\* C21: no two cards of a result that a run returns from the upstream path, over
\* one chunk or several, have the same front.
C21_NoEqualFronts ==
  (pc = "done" /\ outcome.via = "upstream") =>
    \A j, k \in 1..Len(outcome.result.cards) :
      outcome.result.cards[j].front = outcome.result.cards[k].front => j = k

\* C22: every card that parseAIResponse has produced for a returned result has
\* the difficulty easy, medium or hard.
C22_DifficultyInEnum ==
  (pc = "done" /\ outcome.via = "upstream") =>
    \A k \in 1..Len(outcome.result.cards) :
      outcome.result.cards[k].difficulty \in {JStr("easy"), JStr("medium"), JStr("hard")}

\* C23: the cards of a returned result have ids that differ from one another,
\* also when they come from different chunks of the run.
C23_DistinctIds ==
  pc = "done" =>
    \A j, k \in 1..Len(outcome.result.cards) :
      outcome.result.cards[j].id = outcome.result.cards[k].id => j = k

\* C23 happens: a combined result holds the first card of the first chunk's reply
\* and the first card of the second chunk's reply.
C23_Witness ==
  /\ pc = "done"
  /\ outcome.via = "upstream"
  /\ Len(chunks) > 1
  /\ \E j, k \in 1..Len(outcome.result.cards) :
       /\ j # k
       /\ outcome.result.cards[j].id.index = outcome.result.cards[k].id.index
       /\ outcome.result.cards[j].id.t # outcome.result.cards[k].id.t

\* C24: in a returned result every term of medicalTerms is one of concepts.
C24_MedicalTermsWithinConcepts ==
  pc = "done" =>
    \A m \in 1..Len(outcome.result.medicalTerms) :
      \E c \in 1..Len(outcome.result.concepts) :
        outcome.result.concepts[c] = outcome.result.medicalTerms[m]

\* C26: the prompt built for a chunk holds all that the chunk holds, so that with
\* the chunks covering the text nothing of the text is kept from the upstream.
C26_PromptHoldsWholeChunk ==
  (pc = "chunked" /\ i > 0) => Ink(prompt.content) = Ink(chunks[i])

\* C25: in extractFlashcards of part_006 the endpoints are fetched at most once
\* each and in the order primary, fallback, backup; an endpoint after the first is
\* fetched only in the step in which the attempt on the endpoint before it failed
\* (callHuggingFace threw, or parseAIResponse threw on what it returned); once the
\* run has returned a result, no endpoint is fetched.
C25_EndpointsOnceInOrder ==
  [][/\ fetched' = SubSeq(HF_ENDPOINTS, 1, Len(fetched'))
     /\ (fetched' # fetched /\ fetched # << >>) =>
          /\ pc = fetched[Len(fetched)]
          /\ Len(fetched') = Len(fetched) + 1
          /\ \/ status' # 200
             \/ received' = None
             \/ ~parseAIResponseHF(received', format, now).ok
          /\ caught' # None
     /\ outcome # None => fetched' = fetched
     /\ outcome' # None /\ outcome'.via = "upstream" => fetched' = fetched]_vars

\* The backup endpoint has been fetched after the two before it failed, and its
\* answer was accepted.
C25_Witness ==
  pc = "done" /\ outcome.via = "upstream" /\ fetched = HF_ENDPOINTS /\ caught # None

\* C30: addNotes throws before any request when the list of flashcards is missing
\* or empty, and throws when AnkiConnect created none of the notes; when it
\* returns, success is at least 1, success + failed is the number of flashcards,
\* and ids is the list of the success-many ids that are not null.
C30_AddNotesCounts ==
  pc = "done" =>
    /\ (~Truthy(flashcards) \/ Len(flashcards.a) = 0) =>
         (outcome.via = "error" /\ requests = 0)
    /\ (received # None /\ IsArray(received.result)
          /\ \A k \in 1..Len(received.result.a) : received.result.a[k] = JNull) =>
         outcome.via = "error"
    /\ outcome.via = "added" =>
         /\ outcome.result.success >= 1
         /\ outcome.result.success + outcome.result.failed = Len(flashcards.a)
         /\ Len(outcome.result.ids) = outcome.result.success
         /\ \A k \in 1..Len(outcome.result.ids) : outcome.result.ids[k] # JNull
         /\ outcome.result.ids = SelectSeq(received.result.a, LAMBDA id : id # JNull)

\* addNotes has returned after AnkiConnect created some of the notes and rejected
\* others.
C30_Witness ==
  /\ pc = "done"
  /\ outcome.via = "added"
  /\ outcome.result.failed >= 1
  /\ outcome.result.success >= 2

\* C27: once the background script has begun to handle a generateFlashcards
\* request, what getLatestResponse sends the webapp is never a response that was
\* extracted for an earlier request.
C27_NoStaleResponse ==
  polled # None => polled.request = request

\* C28: handleResponseExtraction sends and stores a response only when the page
\* shows more assistant messages than were counted when the monitoring session
\* that set its timer started.
C28_ExtractsOnlyNewMessage ==
  [][\A t \in timers \ timers' :
       (t.fn = "handleResponseExtraction" /\ Len(sent') > Len(sent)) =>
         Len(messages) > t.observer.recorded]_vars

\* C29: when the 3-minute timer of a session fires after a later session has
\* started, the observer of the later session stays connected and the flag stays
\* as it was.
C29_TimeoutStopsOwnSession ==
  [][(/\ timeouts # << >>
      /\ timeouts' = Tail(timeouts)
      /\ Head(timeouts) # responseObserver.session) =>
       UNCHANGED <<responseObserver, isWaitingForResponse>>]_vars

=============================================================================
